---- MODULE Spec2Model ----
(***************************************************************************)
(* Dialogue state machine of the calendar booking assistant                *)
(* (app/agents/calendar_agent.py), its HTTP entry point (app/main.py) and  *)
(* the calendar service it books through (app/services/calendar_service.py)*)
(*                                                                         *)
(* Time is counted in minutes.  A timestamp is day * 1440 + minute of day, *)
(* day 0 being "today".  Texts that the code parses with regular           *)
(* expressions (times, durations) are records naming the shape the regex   *)
(* recognises and the numbers it captures.                                 *)
(***************************************************************************)
EXTENDS Integers, Sequences, FiniteSets, TLC

\* ------------------------------------------------------------------ bounds
MaxEvents == 2      \* events the calendar holds at most
MaxBookings == 1    \* events the assistant creates, for every session the server knows, before the model stops taking turns

MaxHour == 24       \* largest hour number of the time texts tried on _parse_time
MaxTenths == 30     \* longest "N hours" text tried on parse_duration, in tenths of an hour
MaxMinutes == 60    \* longest "N minutes" text tried on parse_duration

DayMin == 24 * 60

\* ------------------------------------------------------------- time texts
\* form: "none" (no text), "hm_ap" (H:MM am/pm), "h_ap" (H am/pm),
\*       "hm" (H:MM), "h" (bare H), "word" (no digits; ap holds the word)
TT(form, h, m, ap) == [form |-> form, h |-> h, m |-> m, ap |-> ap]
NoTime == TT("none", 0, 0, "")
Word(w) == TT("word", 0, 0, w)

DefaultFallbackTime == 14 * 60

Hour12To24(h, ap) ==
    IF ap = "pm" /\ h # 12 THEN h + 12
    ELSE IF ap = "am" /\ h = 12 THEN 0
    ELSE h

ValidHM(hour, minute) == hour >= 0 /\ hour <= 23 /\ minute >= 0 /\ minute <= 59

\* the generic words looked up after every pattern failed
GenericWordTime(t) ==
    IF t.form = "word" /\ t.ap = "afternoon" THEN 14 * 60
    ELSE IF t.form = "word" /\ t.ap = "morning" THEN 10 * 60
    ELSE IF t.form = "word" /\ t.ap = "evening" THEN 18 * 60
    ELSE DefaultFallbackTime

\* pattern 3, (\d{1,2}):(\d{2}): two groups, hours 1..5 become PM
ParseHM(t) ==
    LET hour == IF t.h >= 1 /\ t.h <= 5 THEN t.h + 12 ELSE t.h
    IN  IF ValidHM(hour, t.m) THEN hour * 60 + t.m ELSE GenericWordTime(t)

\* pattern 4, ^(\d{1,2})$: one group, hours 1..11 become PM
ParseH(t) ==
    LET hour == IF t.h >= 1 /\ t.h <= 11 THEN t.h + 12 ELSE t.h
    IN  IF ValidHM(hour, 0) THEN hour * 60 ELSE GenericWordTime(t)

\* _parse_time: minute of day.  Pattern 1 has three groups and converts
\* am/pm; pattern 2, (\d{1,2})\s*(am|pm), has two groups, so the code takes
\* the "hour and minute" branch, int("am"/"pm") raises ValueError and the
\* loop continues: an "H am/pm" text reaches the generic fallback.
ParseTime(t) ==
    CASE t.form = "hm_ap" ->
            LET hour == Hour12To24(t.h, t.ap)
            IN  IF ValidHM(hour, t.m) THEN hour * 60 + t.m ELSE ParseHM(t)
      [] t.form = "h_ap" -> GenericWordTime(t)
      [] t.form = "hm" -> ParseHM(t)
      [] t.form = "h" -> ParseH(t)
      [] OTHER -> GenericWordTime(t)

\* strftime('%I:%M %p') of a minute of day: <<hour 1..12, minute, AM/PM>>
StrfIMp(minute) ==
    LET h24 == minute \div 60
        h12 == IF h24 % 12 = 0 THEN 12 ELSE h24 % 12
    IN  <<h12, minute % 60, IF h24 < 12 THEN "AM" ELSE "PM">>

\* _format_time_for_comparison
FormatTimeForComparison(t) == StrfIMp(ParseTime(t))

GenericTimes == {"morning", "afternoon", "evening", "night"}

\* mutant: every time text counts as specific
IsSpecificTime_AnyText(t) == t # NoTime

\* _is_specific_time
IsSpecificTime(t) ==
    IF t.form = "word" /\ t.ap \in GenericTimes THEN FALSE
    ELSE t.form \in {"hm_ap", "h_ap"}

\* generic_time_mapping of _handle_generic_time_defaults
GenericDefault(w) ==
    CASE w = "afternoon" -> TT("hm_ap", 2, 0, "pm")
      [] w = "morning" -> TT("hm_ap", 10, 0, "am")
      [] w = "evening" -> TT("hm_ap", 6, 0, "pm")
      [] w = "night" -> TT("hm_ap", 8, 0, "pm")
      [] OTHER -> NoTime

\* --------------------------------------------------------- duration texts
\* kind: "none" (empty), "hours" ("N hour(s)", n10 = tenths of an hour),
\*       "minutes" ("N minutes", n10 = N), "phrase" (p holds the text),
\*       "huge_hours" ("N hours" with N beyond what timedelta can hold)
DT(kind, n10, p) == [kind |-> kind, n10 |-> n10, p |-> p]
NoDuration == DT("none", 0, "")
Hours(n10) == DT("hours", n10, "")

DurHasHalf(d) == d.kind = "phrase" /\ d.p \in {"half an hour", "half hour", "half hr"}
DurHasQuarter(d) == d.kind = "phrase" /\ d.p \in
    {"a quarter hour", "quarter of an hour", "quarter hr", "an hour and a quarter"}
DurHasAnHour(d) == d.kind = "phrase" /\ d.p \in
    {"an hour", "hour", "half an hour", "quarter of an hour", "an hour and a quarter"}
DurHasHour(d) == d.kind \in {"hours", "huge_hours"} \/ (d.kind = "phrase" /\ d.p \in
    {"half an hour", "half hour", "an hour", "hour", "a quarter hour", "quarter of an hour", "two hour",
     "half hr", "quarter hr", "an hour and a quarter"})
DurHasMinute(d) == d.kind = "minutes"

\* timedelta(hours=hours) raises OverflowError
ParseDurationRaises(d) == d.kind = "huge_hours"

\* parse_duration, in minutes
ParseDuration(d) ==
    IF d.kind = "none" THEN 60
    ELSE IF DurHasHalf(d) /\ DurHasHour(d) THEN 30
    ELSE IF DurHasAnHour(d) THEN 60
    ELSE IF DurHasQuarter(d) /\ DurHasHour(d) THEN 15
    ELSE IF DurHasHour(d) THEN (IF d.kind = "hours" THEN d.n10 * 6 ELSE 60)
    ELSE IF DurHasMinute(d) THEN d.n10
    ELSE IF d.kind = "phrase" /\ d.p = "thirty" THEN 30
    ELSE IF d.kind = "phrase" /\ d.p = "fifteen" THEN 15
    ELSE 60

\* ------------------------------------------------------------ date texts
Weekdays == <<"monday", "tuesday", "wednesday", "thursday", "friday", "saturday", "sunday">>
WeekdayIndex(name) == CHOOSE i \in 1..7 : Weekdays[i] = name
IsWeekday(name) == \E i \in 1..7 : Weekdays[i] = name

ThisWeekdays == <<"this monday", "this tuesday", "this wednesday", "this thursday",
                  "this friday", "this saturday", "this sunday">>
NextWeekdays == <<"next monday", "next tuesday", "next wednesday", "next thursday",
                  "next friday", "next saturday", "next sunday">>

\* mutant: a weekday name given on that weekday means today
ParseDate_SameDayToday(date, wd) ==
    IF date = "today" THEN 0
    ELSE IF date = "tomorrow" THEN 1
    ELSE IF date = "next week" THEN 7
    ELSE IF IsWeekday(date) THEN
        LET ahead == (WeekdayIndex(date) - 1) - wd
        IN  IF ahead < 0 THEN ahead + 7 ELSE ahead
    ELSE IF \E i \in 1..7 : ThisWeekdays[i] = date THEN
        LET ahead == ((CHOOSE i \in 1..7 : ThisWeekdays[i] = date) - 1) - wd
        IN  IF ahead < 0 THEN ahead + 7 ELSE ahead
    ELSE IF \E i \in 1..7 : NextWeekdays[i] = date THEN
        ((CHOOSE i \in 1..7 : NextWeekdays[i] = date) - 1) - wd + 7
    ELSE 0

\* mutant: "next <weekday>" is a week after "this <weekday>"
ParseDate_NextAfterThis(date, wd) ==
    IF date = "today" THEN 0
    ELSE IF date = "tomorrow" THEN 1
    ELSE IF date = "next week" THEN 7
    ELSE IF IsWeekday(date) THEN
        LET ahead == (WeekdayIndex(date) - 1) - wd
        IN  IF ahead <= 0 THEN ahead + 7 ELSE ahead
    ELSE IF \E i \in 1..7 : ThisWeekdays[i] = date THEN
        LET ahead == ((CHOOSE i \in 1..7 : ThisWeekdays[i] = date) - 1) - wd
        IN  IF ahead <= 0 THEN ahead + 7 ELSE ahead
    ELSE IF \E i \in 1..7 : NextWeekdays[i] = date THEN
        LET ahead == ((CHOOSE i \in 1..7 : NextWeekdays[i] = date) - 1) - wd
        IN  (IF ahead <= 0 THEN ahead + 7 ELSE ahead) + 7
    ELSE 0

\* _parse_date: days from today; wd is today's weekday, Monday = 0
ParseDate(date, wd) ==
    IF date = "today" THEN 0
    ELSE IF date = "tomorrow" THEN 1
    ELSE IF date = "next week" THEN 7
    ELSE IF IsWeekday(date) THEN
        LET ahead == (WeekdayIndex(date) - 1) - wd
        IN  IF ahead <= 0 THEN ahead + 7 ELSE ahead
    ELSE IF \E i \in 1..7 : ThisWeekdays[i] = date THEN
        LET ahead == ((CHOOSE i \in 1..7 : ThisWeekdays[i] = date) - 1) - wd
        IN  IF ahead <= 0 THEN ahead + 7 ELSE ahead
    ELSE IF \E i \in 1..7 : NextWeekdays[i] = date THEN
        ((CHOOSE i \in 1..7 : NextWeekdays[i] = date) - 1) - wd + 7
    ELSE 0

\* _parse_specific_day
ParseSpecificDay(day, wd) ==
    IF IsWeekday(day) THEN
        LET ahead == (WeekdayIndex(day) - 1) - wd
        IN  IF ahead <= 0 THEN ahead + 7 ELSE ahead
    ELSE 7

\* --------------------------------------------------------------- entities
\* extracted_entities; "", NoTime, NoDuration, -1 and <<>> stand for a key
\* that is absent (every read in the code is a truthiness test or a .get
\* with that default)
EmptyEntities ==
    [title |-> "", duration |-> NoDuration, date |-> "", parsed_date |-> -1,
     time |-> NoTime, requested_time |-> NoTime, selected_time |-> NoTime,
     time_confirmed |-> FALSE, attendees |-> <<>>, attendees_confirmed |-> FALSE,
     selected_day |-> "", day_confirmed |-> FALSE,
     default_time |-> NoTime, generic_time_used |-> "", failed_default_time |-> NoTime]

\* calendar_availability = None (a list of slot timestamps otherwise)
NoneAvail == <<-1>>
\* current_booking = None
NoBooking == [id |-> 0, title |-> "", start |-> 0, end |-> 0, attendees |-> <<>>]

\* ---------------------------------------------------------------- messages
\* One user utterance, with what each regular expression of the agent finds
\* in it:
\*   text    message.lower().strip()
\*   tok     first H:MM am/pm, else first H am/pm token
\*   bare    the number when the whole message is ^\d{1,2}$
\*   rng     H1-H2 am/pm range
\*   emails  addresses matched by the email pattern
\*   day     first weekday name contained
\*   kw      contains a booking keyword (_is_new_booking_request)
\*   title   message.strip().title() when the asking_title filter accepts it
\*   outs    results extract_intent_and_entities can return for it
NoRange == [h1 |-> 0, h2 |-> 0, ap |-> ""]
Out(intent, title, duration, date, time, attendees) ==
    [intent |-> intent, title |-> title, duration |-> duration, date |-> date,
     time |-> time, attendees |-> attendees]
Msg(text, tok, bare, rng, emails, day, kw, title, outs) ==
    [text |-> text, tok |-> tok, bare |-> bare, rng |-> rng, emails |-> emails,
     day |-> day, kw |-> kw, title |-> title, outs |-> outs]

SimpleConfirm == Out("confirm_booking", "", NoDuration, "", NoTime, <<>>)
SimpleReject == Out("reject", "", NoDuration, "", NoTime, <<>>)
Pm3 == TT("h_ap", 3, 0, "pm")
Pm300 == TT("hm_ap", 3, 0, "pm")

MsgBook == Msg("book a meeting about budget review", NoTime, NoTime, NoRange, <<>>, "", TRUE,
    "Book A Meeting About Budget Review",
    {Out("book_appointment", "Budget Review", NoDuration, "", NoTime, <<>>)})
MsgOneHour == Msg("1 hour", NoTime, NoTime, NoRange, <<>>, "", FALSE, "1 Hour",
    {Out("provide_info", "", Hours(10), "", TT("h", 1, 0, ""), <<>>)})
MsgTomorrow3pm == Msg("tomorrow at 3pm", Pm3, NoTime, NoRange, <<>>, "", FALSE, "Tomorrow At 3Pm",
    {Out("provide_info", "", NoDuration, "tomorrow", Pm3, <<>>)})
MsgNo == Msg("no", NoTime, NoTime, NoRange, <<>>, "", FALSE, "No", {SimpleReject})
MsgYes == Msg("yes", NoTime, NoTime, NoRange, <<>>, "", FALSE, "Yes", {SimpleConfirm})
MsgCancel == Msg("cancel", NoTime, NoTime, NoRange, <<>>, "", FALSE, "Cancel", {SimpleReject})
MsgYesCancelIt == Msg("yes, cancel it", NoTime, NoTime, NoRange, <<>>, "", FALSE, "Yes, Cancel It",
    {Out("confirm_booking", "Yes, Cancel It", NoDuration, "", NoTime, <<>>)})
MsgMorning == Msg("morning", NoTime, NoTime, NoRange, <<>>, "", FALSE, "Morning",
    {Out("provide_info", "", NoDuration, "", Word("morning"), <<>>)})
MsgNone == Msg("none", NoTime, NoTime, NoRange, <<>>, "", FALSE, "None",
    {Out("provide_info", "None", NoDuration, "", NoTime, <<>>)})
MsgEmail == Msg("a@x.com", NoTime, NoTime, NoRange, <<"a@x.com">>, "", FALSE, "A@X.Com",
    {Out("provide_info", "", NoDuration, "", NoTime, <<"a@x.com">>)})
MsgNextWeek == Msg("next week", NoTime, NoTime, NoRange, <<>>, "", FALSE, "Next Week",
    {Out("provide_info", "", NoDuration, "next week", NoTime, <<>>)})
MsgHuge == Msg("999999999999 hours", NoTime, NoTime, NoRange, <<>>, "", FALSE, "999999999999 Hours",
    {Out("provide_info", "", DT("huge_hours", 0, ""), "", NoTime, <<>>)})
MsgMonday == Msg("monday", NoTime, NoTime, NoRange, <<>>, "monday", FALSE, "Monday",
    {Out("provide_info", "", NoDuration, "monday", NoTime, <<>>)})
MsgPick300 == Msg("3:00 pm", Pm300, NoTime, NoRange, <<>>, "", FALSE, "3:00 Pm",
    {Out("provide_info", "", NoDuration, "", Pm300, <<>>)})
MsgPlanning == Msg("planning", NoTime, NoTime, NoRange, <<>>, "", TRUE, "Planning",
    {Out("provide_info", "Planning", NoDuration, "", NoTime, <<>>)})
Msg3pmEmail == Msg("3 pm with a@x.com", Pm3, NoTime, NoRange, <<"a@x.com">>, "", FALSE,
    "3 Pm With A@X.Com",
    {Out("provide_info", "", NoDuration, "", Pm3, <<"a@x.com">>)})
MsgYes3pmEmail == Msg("yes, 3 pm with a@x.com", Pm3, NoTime, NoRange, <<"a@x.com">>, "", FALSE,
    "Yes, 3 Pm With A@X.Com",
    {Out("confirm_booking", "", NoDuration, "", Pm3, <<"a@x.com">>),
     Out("provide_info", "", NoDuration, "", Pm3, <<"a@x.com">>)})
\* answers as an extractor that returns exactly the fields supplied gives them
Msg60Min == Msg("60 minutes", NoTime, NoTime, NoRange, <<>>, "", FALSE, "60 Minutes",
    {Out("provide_info", "", DT("minutes", 60, ""), "", NoTime, <<>>)})
MsgTomorrow300pm == Msg("tomorrow at 3:00 pm", Pm300, NoTime, NoRange, <<>>, "", FALSE,
    "Tomorrow At 3:00 Pm",
    {Out("provide_info", "", NoDuration, "tomorrow", Pm300, <<>>)})

Messages == {MsgBook, MsgOneHour, MsgTomorrow3pm, MsgNo, MsgYes, MsgCancel,
             MsgYesCancelIt, MsgMorning, MsgNone, MsgEmail,
             MsgNextWeek, MsgMonday, MsgHuge, MsgPick300, MsgPlanning,
             Msg3pmEmail, MsgYes3pmEmail, Msg60Min, MsgTomorrow300pm}

\* the messages on which the extraction or the workflow is made to raise: one
\* with a booking keyword, one the auto-reset passes over, one with neither
FailingMessages == {MsgBook, MsgYes, MsgNone}

\* the phrases one user draws on during a session
Vocabularies ==
    {{MsgBook, MsgOneHour, MsgTomorrow3pm, MsgNo, MsgYes, MsgNone},
     {MsgBook, MsgOneHour, MsgMorning, MsgNone, MsgYes, MsgCancel, MsgYesCancelIt},
     {MsgBook, MsgOneHour, MsgTomorrow3pm, MsgEmail, MsgYes},
     {MsgBook, MsgOneHour, MsgPick300, MsgNone, MsgYes},
     {MsgBook, MsgOneHour, MsgNextWeek, MsgMonday, MsgNone, MsgYes},
     {MsgBook, MsgHuge, MsgTomorrow3pm, MsgNone, MsgYes},
     {MsgBook, MsgPlanning, MsgOneHour, MsgTomorrow3pm, MsgNone},
     {MsgBook, MsgOneHour, Msg3pmEmail, MsgYes3pmEmail, MsgYes},
     {MsgBook, Msg60Min, MsgTomorrow300pm, MsgEmail, MsgYes}}

\* str.title() on the title candidates of the catalogue
TitleCase(s) ==
    IF s = "budget review" THEN "Budget Review" ELSE s

\* value and str(value).strip() and str(value) not in ["null", "None", ""]
MergeableText(s) == s # "" /\ s # " " /\ s \notin {"null", "None", ""}

\* _is_confirmation
IsConfirmation(m) ==
    m.text \in {"yes", "yep", "yeah", "confirm", "book it", "schedule it", "ok", "okay", "sure"}

\* substring test of _is_cancellation on the catalogue texts
HasCancelPhrase(m) == m.text \in {"yes, cancel it", "no, cancel", "no cancel", "cancel it"}

\* _is_cancellation
IsCancellation(m) ==
    \/ HasCancelPhrase(m)
    \/ m.text \in {"no", "cancel", "nevermind", "no thanks", "not now", "abort", "stop"}

\* _is_no_attendees_response
IsNoAttendeesResponse(m) ==
    m.text \in {"no", "none", "just me", "only me", "no one", "nobody"}

\* _is_time_selection
IsTimeSelection(m, stg) ==
    /\ stg \in {"showing_slots", "showing_alternative_slots"}
    /\ (m.tok # NoTime \/ m.bare # NoTime)

\* _extract_selected_time
ExtractSelectedTime(m) == IF m.tok # NoTime THEN m.tok ELSE m.bare

\* _is_day_selection
IsDaySelection(m, stg) == stg = "asking_specific_day" /\ m.day # ""

\* _is_new_booking_request
IsNewBookingRequest(m, stg) == stg \in {"booking_confirmed", "booking_failed"} /\ m.kw

\* _extract_time_range: <<duration, time>> of an H1-H2 am/pm range
ExtractTimeRange(m) ==
    LET sh == IF m.rng.ap = "pm" /\ m.rng.h1 # 12 THEN m.rng.h1 + 12 ELSE m.rng.h1
        eh == IF m.rng.ap = "pm" /\ m.rng.h2 # 12 THEN m.rng.h2 + 12
              ELSE IF m.rng.ap = "am" /\ m.rng.h2 = 12 THEN 0 ELSE m.rng.h2
        d  == IF eh - sh < 0 THEN eh - sh + 24 ELSE eh - sh
    IN  <<Hours(d * 10), TT("h_ap", m.rng.h1, 0, m.rng.ap)>>

\* no parsing function was called on its own yet
NoCalc == [fn |-> "", arg |-> <<>>, raises |-> FALSE, res |-> 0]

\* the assistant message of a turn: kind is "stage" (the text
\* generate_response chooses for the stage), "issue" ("I encountered an issue:
\* <error_message>. Let's try again.", detail = the error text) or "fallback"
\* (the fixed sentence of the except clauses); NoReply while none was written
Reply(kind, detail) == [kind |-> kind, detail |-> detail]
NoReply == Reply("", "")

\* ------------------------------------------------------------------ state
VARIABLES
    pc,                    \* node of the workflow graph the turn is at ("idle" between turns)
    turn_msgs,             \* roles appended to messages since the turn began
    user_intent,           \* ConversationState.user_intent
    extracted_entities,    \* ConversationState.extracted_entities
    conversation_stage,    \* ConversationState.conversation_stage
    calendar_availability, \* ConversationState.calendar_availability
    current_booking,       \* ConversationState.current_booking
    error_message,         \* state["error_message"] of the running turn
    events,                \* events held by the calendar backend
    cache,                 \* _availability_cache: day -> [slots, expired (older than _cache_duration)]
    is_mock,               \* calendar_service.service is a MockCalendarService
    now,                   \* datetime.now(): [wd |-> weekday, min |-> minute of day]
    created,               \* create_event calls the assistant has made
    script,                \* messages of a scenario (ScriptMsgs, HappyMsgs) received so far
    vocabulary,            \* the messages the user of this session sends
    session_id,            \* the session whose conversation the fields above are
    conversations,         \* the conversations main.py stores for the other sessions
    calc,                  \* last call of a parsing function: [fn, arg, raises, res]
    reply                  \* content of the assistant message of the turn: [kind, detail]

sess == <<session_id, conversations>>

vars == <<pc, turn_msgs, user_intent, extracted_entities, conversation_stage,
          calendar_availability, current_booking, error_message, events, cache, is_mock,
          now, created, script, vocabulary, sess, calc, reply>>

conv == <<user_intent, extracted_entities, conversation_stage, calendar_availability,
          current_booking>>
env == <<events, cache, is_mock, now>>

\* ------------------------------------------------------- calendar service
DayStart(day) == day * DayMin
DayOf(ts) == ts \div DayMin
MinuteOf(ts) == ts % DayMin

\* get_events(day_start, day_end): the events that intersect the day
GetEvents(day) == {e \in events : e.start < DayStart(day) + DayMin /\ e.end > DayStart(day)}

\* overlap test of MockCalendarService.get_availability
MockOverlap(s1, e1, s2, e2) == s1 < e2 /\ e1 > s2

\* _times_overlap_strict (one-minute buffer)
TimesOverlapStrict(s1, e1, s2, e2) == (s1 + 1) < e2 /\ e1 > (s2 + 1)

SlotWindow == 60
SlotStep == 30
MaxSlots == 15
FirstHour == 6

\* the first candidate overflows the hour field (replace(hour=24) raises ValueError)
FirstCandidateRaises(day) ==
    /\ day = 0
    /\ DayOf(now.min + 30) = 0
    /\ 15 * ((((now.min + 30) % 60) \div 15) + 1) >= 60
    /\ (now.min + 30) \div 60 = 23

\* start of slot generation: now + 30 minutes rounded up to the next quarter
\* for today, 06:00 for any other day
FirstCandidate(day) ==
    IF day = 0 THEN
        LET cur == now.min + 30
            minutes == 15 * (((cur % 60) \div 15) + 1)
        IN  IF minutes >= 60 THEN ((cur \div 60) + 1) * 60
            ELSE (cur \div 60) * 60 + minutes
    ELSE DayStart(day) + FirstHour * 60

RECURSIVE ScanSlots(_, _, _, _)
\* the slot loop: 30-minute steps inside the day, a one-hour window tested
\* against the busy periods, at most 15 slots
ScanSlots(t, day, busy, acc) ==
    IF DayOf(t) # day \/ Len(acc) >= MaxSlots THEN acc
    ELSE IF MinuteOf(t) < FirstHour * 60 THEN ScanSlots(t + SlotStep, day, busy, acc)
    ELSE LET free == \A b \in busy :
                        IF is_mock THEN ~MockOverlap(t, t + SlotWindow, b.start, b.end)
                        ELSE ~TimesOverlapStrict(t, t + SlotWindow, b.start, b.end)
         IN  ScanSlots(t + SlotStep, day, busy, IF free THEN Append(acc, t) ELSE acc)

\* the slots get_availability computes from the backend for a day
ComputeSlots(day) == ScanSlots(FirstCandidate(day), day, GetEvents(day), <<>>)

\* a cache entry that get_availability returns without recomputing: the real
\* service asks _is_cache_valid, MockCalendarService only looks for the key
CacheHit(day) == day \in DOMAIN cache /\ (is_mock \/ ~cache[day].expired)

\* get_availability: [raises, slots, cache]; fb_ok is FALSE when the
\* free/busy query of the backend fails
GetAvailability(day, fb_ok) ==
    IF CacheHit(day) THEN [raises |-> FALSE, slots |-> cache[day].slots, cache |-> cache]
    ELSE IF FirstCandidateRaises(day) \/ ~fb_ok
         THEN [raises |-> is_mock /\ FirstCandidateRaises(day), slots |-> <<>>, cache |-> cache]
    ELSE LET slots == ComputeSlots(day)
         IN  [raises |-> FALSE, slots |-> slots,
              cache |-> [d \in DOMAIN cache \cup {day} |->
                            IF d = day THEN [slots |-> slots, expired |-> FALSE] ELSE cache[d]]]

\* mutant: an event counts only when the slot runs past its end
IsSlotAvailable_PastEnd(start, end, ev_ok) ==
    \A e \in (IF ev_ok THEN GetEvents(DayOf(start)) ELSE {}) :
        ~(start < e.end /\ end > e.end)

\* _is_slot_available over the events get_events returned
\* (ev_ok is FALSE when get_events fails and returns [])
IsSlotAvailable(start, end, ev_ok) ==
    \A e \in (IF ev_ok THEN GetEvents(DayOf(start)) ELSE {}) :
        ~(start < e.end /\ end > e.start)

\* mutant: the probe never finds the default time free
CheckSpecificTime_AlwaysBusy(day, t, dur, ev_ok) == FALSE

\* _check_specific_time
CheckSpecificTime(day, t, dur, ev_ok) ==
    LET start == DayStart(day) + ParseTime(t)
    IN  \A e \in (IF ev_ok THEN GetEvents(day) ELSE {}) :
            ~(start < e.end /\ start + dur > e.start)

\* ------------------------------------------------------------ extraction
\* new_entities after the time-range and combined-message extraction were
\* written over the extractor's result (each only where it found a value)
NewEntities(m, out) ==
    LET r == IF m.rng # NoRange
             THEN [out EXCEPT !.duration = ExtractTimeRange(m)[1], !.time = ExtractTimeRange(m)[2]]
             ELSE out
        c == IF m.tok # NoTime THEN [r EXCEPT !.time = m.tok] ELSE r
    IN  IF m.emails # <<>> THEN [c EXCEPT !.attendees = m.emails] ELSE c

\* mutant: a title is only taken while none is stored
MergeTitle_KeepFirst(e, new) ==
    IF MergeableText(new.title) /\ e.title = "" THEN [e EXCEPT !.title = TitleCase(new.title)] ELSE e

\* the merge loop of _extract_info_node
MergeTitle(e, new) ==
    IF MergeableText(new.title) THEN [e EXCEPT !.title = TitleCase(new.title)] ELSE e
MergeDuration(e, new) ==
    IF new.duration # NoDuration THEN [e EXCEPT !.duration = new.duration] ELSE e
MergeDate(e, new) ==
    IF MergeableText(new.date)
    THEN [e EXCEPT !.date = new.date, !.parsed_date = ParseDate(new.date, now.wd)]
    ELSE e
MergeTime(e, new) ==
    IF new.time # NoTime
    THEN [e EXCEPT !.time = new.time, !.requested_time = new.time,
                   !.selected_time = IF IsSpecificTime(new.time) THEN new.time ELSE @]
    ELSE e
MergeAttendees(e, new) ==
    IF new.attendees # <<>> THEN [e EXCEPT !.attendees = new.attendees] ELSE e
Merge(e, new) ==
    MergeAttendees(MergeTime(MergeDate(MergeDuration(MergeTitle(e, new), new), new), new), new)

\* _handle_generic_time_defaults
HandleGenericTimeDefaults(e) ==
    IF e.time.form = "word" /\ GenericDefault(e.time.ap) # NoTime
    THEN [e EXCEPT !.default_time = GenericDefault(e.time.ap),
                   !.generic_time_used = e.time.ap,
                   !.requested_time = GenericDefault(e.time.ap)]
    ELSE e

\* lines 236-251: a slot or a day picked from what was offered
SelectTime(e, m, stg) ==
    IF IsTimeSelection(m, stg) /\ ExtractSelectedTime(m) # NoTime
    THEN [e EXCEPT !.selected_time = ExtractSelectedTime(m), !.time_confirmed = TRUE]
    ELSE e
SelectDay(e, m, stg) ==
    IF IsDaySelection(m, stg)
    THEN [e EXCEPT !.selected_day = m.day, !.day_confirmed = TRUE,
                   !.parsed_date = ParseSpecificDay(m.day, now.wd)]
    ELSE e

\* lines 302-319: the raw message taken as the title while asking for it
ForceTitle(e, m, stg) ==
    IF e.title = "" /\ stg = "asking_title" /\ m.title # ""
    THEN [e EXCEPT !.title = m.title] ELSE e

\* lines 321-328
ConfirmAttendees(e, m) ==
    IF IsNoAttendeesResponse(m)
    THEN [e EXCEPT !.attendees = <<>>, !.attendees_confirmed = TRUE]
    ELSE IF Len(e.attendees) > 0 THEN [e EXCEPT !.attendees_confirmed = TRUE]
    ELSE e

\* the conversation as a record, to pass it through the steps of a node
Conv(intent, e, stg, avail, booking) ==
    [user_intent |-> intent, extracted_entities |-> e, conversation_stage |-> stg,
     calendar_availability |-> avail, current_booking |-> booking]

\* _reset_conversation_state
ResetConversationState(c) == Conv("", EmptyEntities, "initial", NoneAvail, NoBooking)

\* mutant: every message after a confirmed booking resets the conversation
AutoReset_AnyMessage(c, m) ==
    IF c.conversation_stage = "booking_confirmed"
    THEN Conv("", EmptyEntities, "initial", NoneAvail, NoBooking)
    ELSE c

\* chat_endpoint, lines 331-341: reset after a confirmed booking
AutoReset(c, m) ==
    IF c.conversation_stage = "booking_confirmed"
       /\ m.text \notin {"yes", "no", "ok", "thanks", "thank you"}
    THEN Conv("", EmptyEntities, "initial", NoneAvail, NoBooking)
    ELSE c

\* _extract_info_node on conversation c, message m and extractor result out
ExtractInfo(c, m, out) ==
    LET c1 == IF IsNewBookingRequest(m, c.conversation_stage) THEN ResetConversationState(c) ELSE c
        stg == c1.conversation_stage
        e1 == SelectDay(SelectTime(c1.extracted_entities, m, stg), m, stg)
        e2 == Merge(e1, NewEntities(m, out))
        e3 == ForceTitle(HandleGenericTimeDefaults(e2), m, stg)
        e4 == ConfirmAttendees(e3, m)
    IN  IF out.intent = "confirm_booking" \/ IsConfirmation(m)
        THEN [c1 EXCEPT !.user_intent = "confirm_booking"]
        ELSE IF out.intent = "reject" \/ IsCancellation(m)
        THEN Conv("cancel_booking", EmptyEntities, "booking_cancelled", NoneAvail, NoBooking)
        ELSE [c1 EXCEPT !.extracted_entities = e4, !.user_intent = out.intent]

\* ---------------------------------------------------------------- routing
\* mutant: the day of a "next week" booking is never asked for
NeedsSpecificDay_Never(e) == FALSE

\* _needs_specific_day ("next week" is the one date text of the model that contains it)
NeedsSpecificDay(e) == e.date = "next week" /\ ~e.day_confirmed

\* mutant: a title alone makes the booking complete
HasCompleteBookingInfo_TitleOnly(e) == e.title # ""

\* mutant: the completeness test without parsed_date
HasCompleteBookingInfo_NoDate(e) ==
    /\ e.title # ""
    /\ e.duration # NoDuration
    /\ e.attendees_confirmed
    /\ e.selected_time # NoTime

\* _has_complete_booking_info
HasCompleteBookingInfo(e) ==
    /\ e.title # ""
    /\ e.duration # NoDuration
    /\ e.attendees_confirmed
    /\ e.selected_time # NoTime
    /\ e.parsed_date # -1

\* _route_next_step; "reset_conversation" is not a value it returns
RouteNextStep(c) ==
    LET e == c.extracted_entities
    IN  IF c.user_intent = "confirm_booking"
        THEN (IF HasCompleteBookingInfo(e) THEN "create_booking" ELSE "generate_response")
        ELSE IF c.user_intent = "cancel_booking" \/ c.conversation_stage = "booking_cancelled"
        THEN "generate_response"
        ELSE IF c.conversation_stage = "booking_conflict" THEN "handle_conflict"
        ELSE IF e.title = "" THEN "ask_title"
        ELSE IF e.duration = NoDuration THEN "ask_duration"
        ELSE IF NeedsSpecificDay(e) THEN "ask_specific_day"
        ELSE IF e.selected_time = NoTime THEN "check_availability"
        ELSE IF ~e.attendees_confirmed THEN "ask_attendees"
        ELSE "confirm_booking"

\* ------------------------------------------------------------ the nodes
\* mutant: the excluded time is not compared with the slots
FilterSlots_NoExclusion(slots, excluded, dur, ev_ok, acc) ==
    acc \o SelectSeq(slots, LAMBDA t : IsSlotAvailable(t, t + dur, ev_ok))

RECURSIVE FilterSlots(_, _, _, _, _)
\* the loop over available_slots in _check_availability_node and
\* _handle_conflict_node: drop the slot whose formatted time equals the
\* excluded time, keep the slots _is_slot_available accepts for the duration
FilterSlots(slots, excluded, dur, ev_ok, acc) ==
    IF slots = <<>> THEN acc
    ELSE LET t == Head(slots)
             skip == excluded # NoTime /\ StrfIMp(MinuteOf(t)) = FormatTimeForComparison(excluded)
             keep == ~skip /\ IsSlotAvailable(t, t + dur, ev_ok)
         IN  FilterSlots(Tail(slots), excluded, dur, ev_ok, IF keep THEN Append(acc, t) ELSE acc)

MaxSuggestions == 8
\* mutant: the list of suggestions is not cut
FirstN_Uncut(seq, n) == seq

FirstN(seq, n) == IF Len(seq) <= n THEN seq ELSE SubSeq(seq, 1, n)

\* _check_availability_node: [conv, cache]
CheckAvailabilityNode(c, probe_ok, ev_ok, fb_ok) ==
    LET e0 == c.extracted_entities
        e1 == IF e0.parsed_date = -1 THEN [e0 EXCEPT !.parsed_date = 0, !.date = "today"] ELSE e0
        day == e1.parsed_date
        dur == ParseDuration(e1.duration)
        probe == e1.default_time # NoTime /\ e1.generic_time_used # ""
        free == CheckSpecificTime(day, e1.default_time, dur, probe_ok)
        e2 == IF probe THEN [e1 EXCEPT !.failed_default_time = e1.default_time] ELSE e1
        got == GetAvailability(day, fb_ok)
        suitable == FilterSlots(got.slots, e2.failed_default_time, dur, ev_ok, <<>>)
    IN  IF ParseDurationRaises(e1.duration)
        THEN [conv |-> [c EXCEPT !.extracted_entities = e1, !.calendar_availability = <<>>,
                                 !.conversation_stage = "availability_error"],
              cache |-> cache]
        ELSE IF probe /\ free
        THEN [conv |-> [c EXCEPT !.extracted_entities =
                                      [e1 EXCEPT !.selected_time = e1.default_time,
                                                 !.time_confirmed = TRUE],
                                 !.conversation_stage = "time_confirmed"],
              cache |-> cache]
        ELSE IF got.raises
        THEN [conv |-> [c EXCEPT !.extracted_entities = e2, !.calendar_availability = <<>>,
                                 !.conversation_stage = "availability_error"],
              cache |-> got.cache]
        ELSE IF suitable # <<>>
        THEN [conv |-> [c EXCEPT !.extracted_entities = e2,
                                 !.calendar_availability = FirstN(suitable, MaxSuggestions),
                                 !.conversation_stage =
                                      IF probe THEN "showing_alternative_slots" ELSE "showing_slots"],
              cache |-> got.cache]
        ELSE [conv |-> [c EXCEPT !.extracted_entities = e2, !.calendar_availability = <<>>,
                                 !.conversation_stage = "no_availability"],
              cache |-> got.cache]

\* _handle_conflict_node: [conv, cache]
HandleConflictNode(c, ev_ok, fb_ok) ==
    LET e == c.extracted_entities
        dur == ParseDuration(e.duration)
        got == GetAvailability(e.parsed_date, fb_ok)
        suitable == FilterSlots(got.slots, e.selected_time, dur, ev_ok, <<>>)
    IN  IF ParseDurationRaises(e.duration) \/ e.parsed_date = -1
        THEN [conv |-> [c EXCEPT !.conversation_stage = "conflict_error"], cache |-> cache]
        ELSE IF got.raises
        THEN [conv |-> [c EXCEPT !.conversation_stage = "conflict_error"], cache |-> got.cache]
        ELSE IF suitable # <<>>
        THEN [conv |-> [c EXCEPT !.calendar_availability = FirstN(suitable, MaxSuggestions),
                                 !.conversation_stage = "showing_alternative_slots"],
              cache |-> got.cache]
        ELSE [conv |-> [c EXCEPT !.calendar_availability = <<>>,
                                 !.conversation_stage = "no_alternatives"],
              cache |-> got.cache]

\* start and end of the booking _create_booking_node computes from the entities
BookingStart(e) == DayStart(e.parsed_date) + ParseTime(e.selected_time)
BookingEnd(e) == BookingStart(e) + ParseDuration(e.duration)

\* the exceptions _create_booking_node raises before it reaches the calendar
CreateRaises(e) ==
    \/ e.selected_time = NoTime
    \/ e.parsed_date = -1
    \/ ParseDurationRaises(e.duration)

\* str(e) of the exception _create_booking_node caught
CreateErrorText(e) ==
    IF e.selected_time = NoTime \/ e.parsed_date = -1
    THEN "Missing required booking information"
    ELSE "days=41666666666; must have magnitude <= 999999999"

\* identifier of the event a throw-away MockCalendarService returns when the
\* insert into the real calendar failed ("mock_event_1_<timestamp>")
FallbackId == 9001

\* create_event: [event, stored]; stored is FALSE when the backend insert
\* failed and the record comes from a fresh MockCalendarService
CreateEvent(e, ins_ok) ==
    [event |-> [id |-> IF ins_ok THEN created + 1 ELSE FallbackId,
                title |-> e.title, start |-> BookingStart(e), end |-> BookingEnd(e),
                attendees |-> [i \in 1..Len(e.attendees) |->
                                  [email |-> e.attendees[i], responseStatus |-> "needsAction"]]],
     stored |-> ins_ok]

\* mutant: the address is read under a key the attendee entries do not have
CleanEvent_WrongKey(ev) ==
    [ev EXCEPT !.attendees = [i \in 1..Len(ev.attendees) |-> ""]]

\* lines 922-931: attendee entries of the created event reduced to their email
CleanEvent(ev) ==
    [ev EXCEPT !.attendees = [i \in 1..Len(ev.attendees) |-> ev.attendees[i].email]]

\* mutant: a confirmed time asks for confirmation as well
RequiresConfirmation_TimeConfirmed(stg) == stg \in {"awaiting_confirmation", "time_confirmed"}

\* chat_endpoint, lines 416-419
RequiresConfirmation(stg) == stg = "awaiting_confirmation"

\* chat_endpoint, lines 385-430: the side-channel fields of the ChatResponse,
\* read from the conversation the turn left (an if / elif / elif chain)
ChatResponse(c) ==
    LET booked == /\ c.current_booking # NoBooking
                  /\ c.current_booking.id # 0
                  /\ c.conversation_stage = "booking_confirmed"
        slots  == /\ ~booked
                  /\ c.calendar_availability # NoneAvail
                  /\ c.calendar_availability # <<>>
                  /\ c.conversation_stage \in {"showing_slots", "showing_alternative_slots"}
    IN  [booking_data |-> IF booked THEN c.current_booking ELSE NoBooking,
         suggested_times |-> IF slots THEN FirstN(c.calendar_availability, MaxSuggestions)
                             ELSE <<>>,
         requires_confirmation |-> ~booked /\ ~slots /\ RequiresConfirmation(c.conversation_stage)]

\* ------------------------------------------------------------ environment
\* events other users of the calendar may add or remove: today 10:00-11:00
\* and the whole of tomorrow
Busy(id, start, end) ==
    [id |-> id, start |-> start, end |-> end]
ExternalEvents ==
    {Busy(101, 10 * 60, 11 * 60),
     Busy(102, DayMin, 2 * DayMin)}

\* the moment the model is run at: a Wednesday, 09:15
NowChoices == {[wd |-> 2, min |-> 9 * 60 + 15]}

\* the end-to-end scenario of the specification
ScriptMsgs == <<MsgBook, MsgOneHour, MsgTomorrow3pm, MsgNo, MsgYes>>
ScriptStart == DayMin + 15 * 60
ScriptSlotFree == \A e \in events : ~(ScriptStart < e.end /\ ScriptStart + 60 > e.start)

FreshConversation ==
    /\ conversation_stage = "initial"
    /\ extracted_entities = EmptyEntities
    /\ calendar_availability = NoneAvail
    /\ current_booking = NoBooking
    /\ user_intent = ""

\* the conversation in which every prompt is answered with the item asked
\* for; both scenarios begin with the same message, and from its second
\* message on this one is counted from HappyBase, beyond the positions of
\* ScriptMsgs
HappyMsgs == <<MsgBook, Msg60Min, MsgTomorrow300pm, MsgEmail, MsgYes>>
HappyBase == 2 * Len(ScriptMsgs)

NextScript(m) ==
    IF script < Len(ScriptMsgs) /\ m = ScriptMsgs[script + 1] /\ ScriptSlotFree
       /\ (script > 0 \/ FreshConversation)
    THEN script + 1
    ELSE IF script = 1 /\ m = HappyMsgs[2] /\ ScriptSlotFree THEN HappyBase + 2
    ELSE IF script > HappyBase /\ script < HappyBase + Len(HappyMsgs)
            /\ m = HappyMsgs[script - HappyBase + 1] /\ ScriptSlotFree
    THEN script + 1
    ELSE IF m = ScriptMsgs[1] /\ ScriptSlotFree /\ FreshConversation THEN 1
    ELSE 0

\* ------------------------------------------------------------------- Init
Init ==
    /\ pc = "idle"
    /\ turn_msgs = <<>>
    /\ user_intent = ""
    /\ extracted_entities = EmptyEntities
    /\ conversation_stage = "initial"
    /\ calendar_availability = NoneAvail
    /\ current_booking = NoBooking
    /\ error_message = ""
    /\ events \in {s \in SUBSET ExternalEvents : Cardinality(s) <= 1}
    /\ cache = <<>>
    /\ is_mock = FALSE
    /\ now \in NowChoices
    /\ created = 0
    /\ script = 0
    /\ vocabulary \in Vocabularies
    /\ session_id = "default"
    /\ conversations = <<>>
    /\ calc = NoCalc
    /\ reply = NoReply

\* ---------------------------------------------------------------- actions
SetConv(c) ==
    /\ user_intent' = c.user_intent
    /\ extracted_entities' = c.extracted_entities
    /\ conversation_stage' = c.conversation_stage
    /\ calendar_availability' = c.calendar_availability
    /\ current_booking' = c.current_booking

CurrentConv ==
    Conv(user_intent, extracted_entities, conversation_stage, calendar_availability, current_booking)

\* chat_endpoint up to the routing decision: the auto-reset, the user message
\* appended, _extract_info_node and _route_next_step
Receive(m, out) ==
    /\ pc = "idle"
    /\ m \in vocabulary
    /\ LET c == ExtractInfo(AutoReset(CurrentConv, m), m, out)
           node == RouteNextStep(c)
       IN  /\ node = "create_booking" => created < MaxBookings * (1 + Cardinality(DOMAIN conversations))
           /\ SetConv(c)
           /\ pc' = node
    /\ turn_msgs' = <<"user">>
    /\ error_message' = ""
    /\ reply' = NoReply
    /\ script' = NextScript(m)
    /\ UNCHANGED <<env, created, vocabulary, sess, calc>>

\* mutant: the except clause marks the conversation as cancelled
ExtractInfoRaised_Cancelled(c, m) == [c EXCEPT !.conversation_stage = "booking_cancelled"]

\* _extract_info_node when the extraction raises (line 215): the except clause
\* returns the state as it is, after the reset of a new booking request, with
\* the intent of the turn before; routing goes on from there
ExtractInfoRaised(c, m) ==
    IF IsNewBookingRequest(m, c.conversation_stage) THEN ResetConversationState(c) ELSE c

ReceiveExtractionRaises(m) ==
    /\ pc = "idle"
    /\ m \in vocabulary
    /\ LET c == ExtractInfoRaised(AutoReset(CurrentConv, m), m)
           node == RouteNextStep(c)
       IN  /\ node = "create_booking" => created < MaxBookings * (1 + Cardinality(DOMAIN conversations))
           /\ SetConv(c)
           /\ pc' = node
    /\ turn_msgs' = <<"user">>
    /\ error_message' = ""
    /\ reply' = NoReply
    /\ script' = 0
    /\ UNCHANGED <<env, created, vocabulary, sess, calc>>

\* the sentence the except clauses of _generate_response_node, of
\* process_message and of chat_endpoint append
Fallback == Reply("fallback", "")

\* process_message when the workflow raises before its first node ran
\* (lines 1112-1123): the fallback message is appended to the conversation
\* chat_endpoint handed over, and the turn is over
ReceiveWorkflowRaises(m) ==
    /\ pc = "idle"
    /\ m \in vocabulary
    /\ SetConv(AutoReset(CurrentConv, m))
    /\ turn_msgs' = <<"user", "assistant">>
    /\ reply' = Fallback
    /\ error_message' = ""
    /\ script' = 0
    /\ UNCHANGED <<pc, env, created, vocabulary, sess, calc>>

\* _ask_title_node, _ask_duration_node, _ask_specific_day_node,
\* _ask_attendees_node, _confirm_booking_node: each only sets the stage
AskNode(node, stg) ==
    /\ pc = node
    /\ conversation_stage' = stg
    /\ pc' = "generate_response"
    /\ UNCHANGED <<turn_msgs, user_intent, extracted_entities,
                   calendar_availability, current_booking, error_message, env, created, script, vocabulary, sess, calc, reply>>

AskTitle == AskNode("ask_title", "asking_title")
AskDuration == AskNode("ask_duration", "asking_duration")
AskSpecificDay == AskNode("ask_specific_day", "asking_specific_day")
AskAttendees == AskNode("ask_attendees", "asking_attendees")
ConfirmBooking == AskNode("confirm_booking", "awaiting_confirmation")

\* the calls a failing backend can spoil; a MockCalendarService never fails
BackendOutcomes == IF is_mock THEN {TRUE} ELSE BOOLEAN

\* probe_ok, ev_ok: get_events answers the probe of the default time / the
\* checks of the listed slots; fb_ok: the free/busy query answers
CheckAvailability(probe_ok, ev_ok, fb_ok) ==
    /\ pc = "check_availability"
    /\ LET r == CheckAvailabilityNode(CurrentConv, probe_ok, ev_ok, fb_ok)
       IN  SetConv(r.conv) /\ cache' = r.cache
    /\ pc' = "generate_response"
    /\ UNCHANGED <<turn_msgs, error_message, events, is_mock, now, created, script, vocabulary, sess, calc, reply>>

HandleConflict(ev_ok, fb_ok) ==
    /\ pc = "handle_conflict"
    /\ LET r == HandleConflictNode(CurrentConv, ev_ok, fb_ok)
       IN  SetConv(r.conv) /\ cache' = r.cache
    /\ pc' = "generate_response"
    /\ UNCHANGED <<turn_msgs, error_message, events, is_mock, now, created, script, vocabulary, sess, calc, reply>>

\* mutant: a conflict found by the final check is handed on to handle_conflict
CreateBookingCheck_ChainsConflict(ev_ok) ==
    /\ pc = "create_booking"
    /\ LET e == extracted_entities
       IN  IF CreateRaises(e)
           THEN /\ conversation_stage' = "booking_failed"
                /\ error_message' = CreateErrorText(e)
                /\ pc' = "generate_response"
           ELSE IF ~IsSlotAvailable(BookingStart(e), BookingEnd(e), ev_ok)
           THEN /\ conversation_stage' = "booking_conflict"
                /\ error_message' = error_message
                /\ pc' = "handle_conflict"
           ELSE /\ conversation_stage' = conversation_stage
                /\ error_message' = error_message
                /\ pc' = "create_event"
    /\ UNCHANGED <<turn_msgs, user_intent, extracted_entities,
                   calendar_availability, current_booking, env, created, script, vocabulary, sess, calc, reply>>

\* _create_booking_node up to the final conflict check (lines 872-907)
\* (ev_ok: get_events answers the final re-check)
CreateBookingCheck(ev_ok) ==
    /\ pc = "create_booking"
    /\ LET e == extracted_entities
       IN  IF CreateRaises(e)
           THEN /\ conversation_stage' = "booking_failed"
                /\ error_message' = CreateErrorText(e)
                /\ pc' = "generate_response"
           ELSE IF ~IsSlotAvailable(BookingStart(e), BookingEnd(e), ev_ok)
           THEN /\ conversation_stage' = "booking_conflict"
                /\ error_message' = error_message
                /\ pc' = "generate_response"
           ELSE /\ conversation_stage' = conversation_stage
                /\ error_message' = error_message
                /\ pc' = "create_event"
    /\ UNCHANGED <<turn_msgs, user_intent, extracted_entities,
                   calendar_availability, current_booking, env, created, script, vocabulary, sess, calc, reply>>

\* _create_booking_node from create_event on (lines 909-946)
\* (ins_ok: the insert into the calendar succeeds)
CreateBookingInsert(ins_ok) ==
    /\ pc = "create_event"
    /\ LET r == CreateEvent(extracted_entities, ins_ok)
       IN  /\ events' = IF r.stored THEN events \cup {Busy(r.event.id, r.event.start, r.event.end)}
                        ELSE events
           /\ cache' = IF r.stored THEN <<>> ELSE cache
           /\ IF r.event.id # 0
              THEN /\ current_booking' = CleanEvent(r.event)
                   /\ conversation_stage' = "booking_confirmed"
              ELSE /\ current_booking' = current_booking
                   /\ conversation_stage' = "booking_failed"
    /\ created' = created + 1
    /\ pc' = "generate_response"
    /\ UNCHANGED <<turn_msgs, user_intent, extracted_entities,
                   calendar_availability, error_message, is_mock, now, script, vocabulary, sess, calc, reply>>

\* _generate_response_node and the end of process_message: the reply is
\* appended and the turn is over
\* generate_response of the AI service, lines 411-425: an error message of
\* the turn is shown before the stage is looked at
RenderReply ==
    IF error_message # "" THEN Reply("issue", error_message) ELSE Reply("stage", "")

\* mutant: the reply that failed to be built stays in the list next to the fallback
GenerateResponse_KeepsBoth(render_ok) ==
    /\ pc = "generate_response"
    /\ turn_msgs' = IF render_ok THEN Append(turn_msgs, "assistant")
                    ELSE turn_msgs \o <<"assistant", "assistant">>
    /\ reply' = IF render_ok THEN RenderReply ELSE Fallback
    /\ pc' = "idle"
    /\ error_message' = ""
    /\ UNCHANGED <<conv, env, created, script, vocabulary, sess, calc>>

\* (render_ok is FALSE when building the reply raises: the except clause
\* appends the fallback sentence instead)
GenerateResponse(render_ok) ==
    /\ pc = "generate_response"
    /\ turn_msgs' = Append(turn_msgs, "assistant")
    /\ reply' = IF render_ok THEN RenderReply ELSE Fallback
    /\ pc' = "idle"
    /\ error_message' = ""
    /\ UNCHANGED <<conv, env, created, script, vocabulary, sess, calc>>

\* another user of the calendar adds or removes an event
ExternalAdd(ev) ==
    /\ ev \in ExternalEvents \ events
    /\ Cardinality(events) < MaxEvents
    /\ events' = events \cup {ev}
    /\ UNCHANGED <<pc, turn_msgs, conv, error_message, cache, is_mock, now,
                   created, script, vocabulary, sess, calc, reply>>

ExternalRemove(ev) ==
    /\ ev \in events \cap ExternalEvents
    /\ events' = events \ {ev}
    /\ UNCHANGED <<pc, turn_msgs, conv, error_message, cache, is_mock, now,
                   created, script, vocabulary, sess, calc, reply>>

\* more than _cache_duration seconds pass: every entry held is now older than
\* the expiry.  The entries of MockCalendarService stay readable; those of the
\* real service can only be overwritten from now on (_is_cache_valid rejects
\* them on every lookup), which is recorded by dropping them
CacheExpire ==
    /\ \E d \in DOMAIN cache : ~cache[d].expired
    /\ cache' = IF is_mock
                THEN [d \in DOMAIN cache |-> [cache[d] EXCEPT !.expired = TRUE]]
                ELSE <<>>
    /\ UNCHANGED <<pc, turn_msgs, conv, error_message, events, is_mock, now,
                   created, script, vocabulary, sess, calc, reply>>

Next ==
    \/ \E m \in Messages : \E out \in m.outs : Receive(m, out)
    \/ \E m \in FailingMessages : ReceiveExtractionRaises(m)
    \/ \E m \in FailingMessages : ReceiveWorkflowRaises(m)
    \/ AskTitle
    \/ AskDuration
    \/ AskSpecificDay
    \/ \E probe_ok \in BackendOutcomes, ev_ok \in BackendOutcomes, fb_ok \in BackendOutcomes :
          CheckAvailability(probe_ok, ev_ok, fb_ok)
    \/ \E ev_ok \in BackendOutcomes, fb_ok \in BackendOutcomes : HandleConflict(ev_ok, fb_ok)
    \/ AskAttendees
    \/ ConfirmBooking
    \/ \E ev_ok \in BackendOutcomes : CreateBookingCheck(ev_ok)
    \/ \E ins_ok \in BackendOutcomes : CreateBookingInsert(ins_ok)
    \/ \E render_ok \in BOOLEAN : GenerateResponse(render_ok)
    \/ \E ev \in ExternalEvents : ExternalAdd(ev)
    \/ \E ev \in ExternalEvents : ExternalRemove(ev)
    \/ CacheExpire

Spec == Init /\ [][Next]_vars

\* ------------------------------------------- the parsing functions on their own
\* time texts handed to _parse_time: every am/pm, 24-hour and bare-hour text
\* with an hour up to MaxHour, and the words without digits
TimeInputs ==
    {TT("hm_ap", h, m, ap) : h \in 0..MaxHour, m \in {0, 30}, ap \in {"am", "pm"}}
    \cup {TT("h_ap", h, 0, ap) : h \in 0..MaxHour, ap \in {"am", "pm"}}
    \cup {TT("hm", h, m, "") : h \in 0..MaxHour, m \in {0, 30}}
    \cup {TT("h", h, 0, "") : h \in 0..MaxHour}
    \cup {Word(w) : w \in {"morning", "afternoon", "evening", "night", "noon", "later"}}
    \cup {NoTime}

\* date texts handed to _parse_date and day names handed to _parse_specific_day
DateInputs ==
    {Weekdays[i] : i \in 1..7} \cup {ThisWeekdays[i] : i \in 1..7}
    \cup {NextWeekdays[i] : i \in 1..7}
    \cup {"today", "tomorrow", "next week", "this week", "someday"}
DayInputs == {Weekdays[i] : i \in 1..7} \cup {"someday"}

\* duration texts handed to parse_duration
DurationPhrases ==
    {"half an hour", "half hour", "an hour", "hour", "a quarter hour",
     "quarter of an hour", "two hour", "thirty", "fifteen", "a while",
     "half hr", "quarter hr", "an hour and a quarter"}
DurationInputs ==
    {NoDuration, DT("huge_hours", 0, "")}
    \cup {Hours(n) : n \in 0..MaxTenths}
    \cup {DT("minutes", n, "") : n \in 0..MaxMinutes}
    \cup {DT("phrase", 0, p) : p \in DurationPhrases}

\* a conversation that has not begun, on an empty calendar
InitCalc ==
    /\ pc = "idle"
    /\ turn_msgs = <<>>
    /\ user_intent = ""
    /\ extracted_entities = EmptyEntities
    /\ conversation_stage = "initial"
    /\ calendar_availability = NoneAvail
    /\ current_booking = NoBooking
    /\ error_message = ""
    /\ events = {}
    /\ cache = <<>>
    /\ is_mock = FALSE
    /\ now \in NowChoices
    /\ created = 0
    /\ script = 0
    /\ vocabulary = {}
    /\ session_id = "default"
    /\ conversations = <<>>
    /\ calc = NoCalc
    /\ reply = NoReply

Called(fn, arg, raises, res) ==
    /\ calc' = [fn |-> fn, arg |-> arg, raises |-> raises, res |-> IF raises THEN 0 ELSE res]
    /\ UNCHANGED <<pc, turn_msgs, conv, error_message, env, created, script, vocabulary, sess, reply>>

\* _parse_time(time_str)
ParseTimeCall(t) == Called("parse_time", t, FALSE, ParseTime(t))

\* _parse_date(date_str) on a day whose weekday is wd
ParseDateCall(date, wd) ==
    Called("parse_date", [date |-> date, wd |-> wd], FALSE, ParseDate(date, wd))

\* _parse_specific_day(day) on a day whose weekday is wd
ParseSpecificDayCall(day, wd) ==
    Called("parse_specific_day", [date |-> day, wd |-> wd], FALSE, ParseSpecificDay(day, wd))

\* parse_duration(duration_str)
ParseDurationCall(d) ==
    Called("parse_duration", d, ParseDurationRaises(d), ParseDuration(d))

\* the message "H1-H2 am/pm" as the regular expressions see it (the first
\* H am/pm token of the text is "H2 am/pm") and as the extractor answers it
RangeMsg(h1, h2, ap) ==
    Msg("H1-H2 am/pm", TT("h_ap", h2, 0, ap), NoTime, [h1 |-> h1, h2 |-> h2, ap |-> ap],
        <<>>, "", FALSE, "",
        {Out("provide_info", "", NoDuration, "", TT("h_ap", h2, 0, ap), <<>>)})

\* _extract_info_node on "H1-H2 am/pm" at the start of a conversation
ExtractRangeCall(h1, h2, ap) ==
    LET m == RangeMsg(h1, h2, ap)
        c == ExtractInfo(Conv("", EmptyEntities, "initial", NoneAvail, NoBooking), m,
                         CHOOSE out \in m.outs : TRUE)
    IN  Called("extract_info_range", [h1 |-> h1, h2 |-> h2, ap |-> ap], FALSE,
               [duration |-> c.extracted_entities.duration,
                time |-> c.extracted_entities.time,
                selected_time |-> c.extracted_entities.selected_time])

NextCalc ==
    \/ \E t \in TimeInputs : ParseTimeCall(t)
    \/ \E h1 \in 1..12, h2 \in 1..12, ap \in {"am", "pm"} : ExtractRangeCall(h1, h2, ap)
    \/ \E date \in DateInputs, wd \in 0..6 : ParseDateCall(date, wd)
    \/ \E day \in DayInputs, wd \in 0..6 : ParseSpecificDayCall(day, wd)
    \/ \E d \in DurationInputs : ParseDurationCall(d)

SpecCalc == InitCalc /\ [][NextCalc]_vars

\* --------------------------------------------- the calendar service on its own
\* days asked of get_availability: today and tomorrow
ServiceDays == {0, 1}

\* datetime.now() at the calls: in the morning, in the evening off the half
\* hour, and in the last hour of the day
ServiceNows ==
    {[wd |-> 2, min |-> 9 * 60 + 15], [wd |-> 2, min |-> 20 * 60 + 5],
     [wd |-> 2, min |-> 23 * 60 + 20], [wd |-> 2, min |-> 23 * 60 + 40]}

\* a calendar service after authenticate(): the real one, or the
\* MockCalendarService it falls back to
InitService ==
    /\ pc = "idle"
    /\ turn_msgs = <<>>
    /\ user_intent = ""
    /\ extracted_entities = EmptyEntities
    /\ conversation_stage = "initial"
    /\ calendar_availability = NoneAvail
    /\ current_booking = NoBooking
    /\ error_message = ""
    /\ events = {}
    /\ cache = <<>>
    /\ is_mock \in BOOLEAN
    /\ now \in ServiceNows
    /\ created = 0
    /\ script = 0
    /\ vocabulary = {}
    /\ session_id = "default"
    /\ conversations = <<>>
    /\ calc = NoCalc
    /\ reply = NoReply

\* get_availability(start_time, end_time) for a day; calc keeps the answer
GetAvailabilityCall(day, fb_ok) ==
    /\ LET got == GetAvailability(day, fb_ok)
       IN  /\ calc' = [fn |-> "get_availability", arg |-> day, raises |-> got.raises,
                       res |-> IF got.raises THEN 0 ELSE got.slots]
           /\ cache' = got.cache
    /\ UNCHANGED <<pc, turn_msgs, conv, error_message, events, is_mock, now,
                   created, script, vocabulary, sess, reply>>

NextService ==
    \/ \E day \in ServiceDays : \E fb_ok \in BackendOutcomes : GetAvailabilityCall(day, fb_ok)
    \/ \E ev \in ExternalEvents : ExternalAdd(ev)
    \/ \E ev \in ExternalEvents : ExternalRemove(ev)
    \/ CacheExpire

SpecService == InitService /\ [][NextService]_vars

\* ------------------------------------------------- several sessions, one server
\* the session_id values of the requests: the default of the query parameter
\* and one a client chose
SessionIds == {"default", "s2"}

\* ConversationState() as chat_endpoint creates it for an unknown session
NewConversation ==
    [conv |-> Conv("", EmptyEntities, "initial", NoneAvail, NoBooking),
     turn_msgs |-> <<>>, reply |-> NoReply, script |-> 0]

\* what conversations[session_id] holds once the turn is over (line 370)
StoredConversation ==
    [conv |-> CurrentConv, turn_msgs |-> turn_msgs, reply |-> reply, script |-> script]

\* mutant: every session is handed the one conversation object
GetConversation_Shared(s) == StoredConversation

\* chat_endpoint lines 324-329: the conversation of the session, created on
\* its first request
GetConversation(s) ==
    IF s \in DOMAIN conversations THEN conversations[s] ELSE NewConversation

\* the next request is one of another session: the conversation served so
\* far stays in conversations, the one of session s is taken up
OtherSession(s) ==
    /\ pc = "idle"
    /\ s \in SessionIds \ {session_id}
    /\ LET c == GetConversation(s)
       IN  /\ SetConv(c.conv)
           /\ turn_msgs' = c.turn_msgs
           /\ reply' = c.reply
           /\ script' = c.script
    /\ session_id' = s
    /\ conversations' = [k \in (DOMAIN conversations \cup {session_id}) \ {s} |->
                            IF k = session_id THEN StoredConversation ELSE conversations[k]]
    /\ UNCHANGED <<pc, error_message, env, created, vocabulary, calc>>

\* two clients who each book a meeting for tomorrow at 3:00 pm
SessionVocabulary == {MsgBook, Msg60Min, MsgTomorrow300pm, MsgEmail, MsgYes}

InitSessions ==
    /\ pc = "idle"
    /\ turn_msgs = <<>>
    /\ user_intent = ""
    /\ extracted_entities = EmptyEntities
    /\ conversation_stage = "initial"
    /\ calendar_availability = NoneAvail
    /\ current_booking = NoBooking
    /\ error_message = ""
    /\ events = {}
    /\ cache = <<>>
    /\ is_mock = FALSE
    /\ now \in NowChoices
    /\ created = 0
    /\ script = 0
    /\ vocabulary = SessionVocabulary
    /\ session_id = "default"
    /\ conversations = <<>>
    /\ calc = NoCalc
    /\ reply = NoReply

\* the turns of the sessions, with a calendar only the assistant writes to;
\* of the calls to the calendar, the one of the final check may fail
NextSessions ==
    \/ \E m \in SessionVocabulary : \E out \in m.outs : Receive(m, out)
    \/ AskTitle
    \/ AskDuration
    \/ AskSpecificDay
    \/ CheckAvailability(TRUE, TRUE, TRUE)
    \/ HandleConflict(TRUE, TRUE)
    \/ AskAttendees
    \/ ConfirmBooking
    \/ \E ev_ok \in BackendOutcomes : CreateBookingCheck(ev_ok)
    \/ CreateBookingInsert(TRUE)
    \/ GenerateResponse(TRUE)
    \/ \E s \in SessionIds : OtherSession(s)

SpecSessions == InitSessions /\ [][NextSessions]_vars

\* ------------------------------------------------------------- properties
\* a handler of the workflow (not the environment) takes the step
HandlerStep(node) == pc = node /\ pc' # node

\* some event of the calendar intersects [start, end)
Overlapped(start, end) == \E ev \in events : start < ev.end /\ end > ev.start

\* C1 (as stated): once the five messages of the end-to-end scenario have been
\* received in a fresh conversation, with tomorrow 15:00-16:00 free, the
\* conversation rests in booking_confirmed with a booking titled "Budget
\* Review" of 60 minutes that starts tomorrow at 15:00 and has no attendees.
C1_Scenario ==
    (script = Len(ScriptMsgs) /\ pc = "idle" /\ ScriptSlotFree) =>
        /\ conversation_stage = "booking_confirmed"
        /\ current_booking.title = "Budget Review"
        /\ current_booking.start = ScriptStart
        /\ current_booking.end = ScriptStart + 60
        /\ current_booking.attendees = <<>>

\* C2: whenever the workflow is in the booking-creation step the intent of the
\* turn is a confirmation and the entities hold a title, a duration, confirmed
\* attendees, a selected time and a parsed date, all at once.
C2_CreationGuard ==
    pc \in {"create_booking", "create_event"} =>
        /\ user_intent = "confirm_booking"
        /\ extracted_entities.title # ""
        /\ extracted_entities.duration # NoDuration
        /\ extracted_entities.attendees_confirmed
        /\ extracted_entities.selected_time # NoTime
        /\ extracted_entities.parsed_date # -1

C2_Witness ==
    /\ pc = "create_booking"
    /\ user_intent = "confirm_booking"
    /\ extracted_entities.parsed_date = 1
    /\ extracted_entities.attendees_confirmed

\* C3: when the final re-check of the creation step reads the calendar and an
\* event of it intersects [start, start + duration) of the chosen slot, no event
\* is created, current_booking keeps its value and the stage becomes
\* booking_conflict.
C3_ConflictStopsCreation ==
    [][(/\ CreateBookingCheck(TRUE)
        /\ ~CreateRaises(extracted_entities)
        /\ Overlapped(BookingStart(extracted_entities), BookingEnd(extracted_entities)))
       => (/\ conversation_stage' = "booking_conflict"
           /\ pc' = "generate_response"
           /\ current_booking' = current_booking
           /\ events' = events
           /\ created' = created)]_vars

C3_Witness ==
    /\ pc = "generate_response"
    /\ conversation_stage = "booking_conflict"
    /\ user_intent = "confirm_booking"
    /\ Overlapped(BookingStart(extracted_entities), BookingEnd(extracted_entities))
    /\ created = 0

\* C4: in the creation step, a record with an identifier returned by
\* create_event makes the stage booking_confirmed and current_booking that
\* record with its attendees as plain addresses; a record without identifier
\* or an exception makes the stage booking_failed and leaves current_booking
\* as it was.
C4_CreationOutcome ==
    [][/\ HandlerStep("create_event") =>
            \E ins_ok \in BOOLEAN :
                LET r == CreateEvent(extracted_entities, ins_ok)
                IN  IF r.event.id # 0
                    THEN /\ conversation_stage' = "booking_confirmed"
                         /\ current_booking' =
                                [id |-> r.event.id, title |-> extracted_entities.title,
                                 start |-> BookingStart(extracted_entities),
                                 end |-> BookingEnd(extracted_entities),
                                 attendees |-> extracted_entities.attendees]
                    ELSE /\ conversation_stage' = "booking_failed"
                         /\ current_booking' = current_booking
       /\ (HandlerStep("create_booking") /\ CreateRaises(extracted_entities)) =>
            (/\ conversation_stage' = "booking_failed"
             /\ current_booking' = current_booking
             /\ pc' = "generate_response")]_vars

C4_Witness ==
    /\ pc = "generate_response"
    /\ conversation_stage = "booking_confirmed"
    /\ current_booking.id # 0
    /\ current_booking.attendees = <<"a@x.com">>

\* C5 (as stated): in every state with conversation_stage = booking_confirmed
\* the identifier in current_booking is that of an event the calendar holds.
C5_ConfirmedIsStored ==
    conversation_stage = "booking_confirmed" =>
        \E ev \in events : ev.id = current_booking.id

\* the conversation holds nothing: no entity, no availability, no booking
FullyReset ==
    /\ extracted_entities = EmptyEntities
    /\ calendar_availability = NoneAvail
    /\ current_booking = NoBooking

\* a booking is being collected: some entity is known and no booking was
\* completed or cancelled
MidFlow ==
    /\ extracted_entities # EmptyEntities
    /\ conversation_stage \notin {"initial", "booking_confirmed", "booking_failed",
                                  "booking_cancelled"}

\* C6 (as stated): a turn received mid-flow whose message is a cancellation
\* runs no handler and ends with stage booking_cancelled, no entities, no
\* availability and no booking.
C6_CancellationResets ==
    [][\A m \in Messages : \A out \in m.outs :
          (IsCancellation(m) /\ MidFlow /\ Receive(m, out)) =>
              (/\ pc' = "generate_response"
               /\ conversation_stage' = "booking_cancelled"
               /\ FullyReset')]_vars

\* C7 (as stated): a turn received while the stage is booking_cancelled,
\* whatever its message, is routed with entities, availability and booking
\* fully reset.
C7_CancelledStaysReset ==
    [][(pc = "idle" /\ pc' # "idle" /\ conversation_stage = "booking_cancelled") =>
          FullyReset']_vars

\* C8 (as stated): in stage booking_cancelled a message that is neither a
\* cancellation nor a confirmation is routed to the prompt for the first
\* missing field, to ask_title when no title is known.
C8_ResumesAfterCancel ==
    [][\A m \in Messages : \A out \in m.outs :
          (/\ conversation_stage = "booking_cancelled"
           /\ ~IsCancellation(m) /\ ~IsConfirmation(m)
           /\ out.intent \notin {"confirm_booking", "reject"}
           /\ Receive(m, out)) =>
              (/\ pc' \in {"ask_title", "ask_duration", "ask_specific_day",
                           "check_availability", "ask_attendees", "confirm_booking"}
               /\ (extracted_entities'.title = "" => pc' = "ask_title"))]_vars

\* C9 (as stated): the stage that follows booking_conflict is
\* showing_alternative_slots, with a non-empty availability that has no slot
\* at the chosen time, or no_alternatives with an empty availability (or
\* booking_cancelled when the user cancels).
C9_ConflictThenAlternatives ==
    [][(conversation_stage = "booking_conflict" /\ conversation_stage' # "booking_conflict") =>
          \/ /\ conversation_stage' = "showing_alternative_slots"
             /\ calendar_availability' # <<>>
             /\ \A i \in DOMAIN calendar_availability' :
                    MinuteOf(calendar_availability'[i]) # ParseTime(extracted_entities.selected_time)
          \/ /\ conversation_stage' = "no_alternatives"
             /\ calendar_availability' = <<>>
          \/ conversation_stage' = "booking_cancelled"]_vars

\* C10: when a generic-time default is recorded and the probe of the
\* availability check reads an event that intersects it, the check ends with
\* an availability that has no slot at the default time, in stage
\* showing_alternative_slots when that list is non-empty and no_availability
\* when it is empty.
C10_BusyDefaultExcluded ==
    [][\A ev_ok \in BOOLEAN, fb_ok \in BOOLEAN :
          LET e == extracted_entities
              day == IF e.parsed_date = -1 THEN 0 ELSE e.parsed_date
              start == DayStart(day) + ParseTime(e.default_time)
          IN  (/\ CheckAvailability(TRUE, ev_ok, fb_ok)
               /\ e.default_time # NoTime /\ e.generic_time_used # ""
               /\ ~ParseDurationRaises(e.duration)
               /\ Overlapped(start, start + ParseDuration(e.duration))) =>
                  (/\ \A i \in DOMAIN calendar_availability' :
                         MinuteOf(calendar_availability'[i]) # ParseTime(e.default_time)
                   /\ calendar_availability' # <<>> =>
                         conversation_stage' = "showing_alternative_slots"
                   /\ calendar_availability' = <<>> =>
                         conversation_stage' = "no_availability")]_vars

C10_Witness ==
    /\ pc = "generate_response"
    /\ conversation_stage = "showing_alternative_slots"
    /\ extracted_entities.failed_default_time = GenericDefault("morning")
    /\ extracted_entities.selected_time = NoTime
    /\ calendar_availability # <<>>
    /\ Overlapped(DayStart(extracted_entities.parsed_date) + 10 * 60,
                  DayStart(extracted_entities.parsed_date) + 11 * 60)

\* the full slot search of an availability node ran in this step and left its list
SlotSearchRan(probe_ok, ev_ok, fb_ok) ==
    /\ CheckAvailability(probe_ok, ev_ok, fb_ok) \/ HandleConflict(ev_ok, fb_ok)
    /\ conversation_stage' \in {"showing_slots", "showing_alternative_slots",
                                "no_availability", "no_alternatives"}

\* C11: after the slot search of the availability check or of the conflict
\* handler, calendar_availability holds at most 8 slots, each starting on the
\* target date, each free of every event getEvents returned for the requested
\* duration, and each taken from what getAvailability answered in this step
\* (in increasing order, nothing kept from the previous list).
C11_FreshVerifiedSlots ==
    [][\A probe_ok \in BOOLEAN, ev_ok \in BOOLEAN, fb_ok \in BOOLEAN :
          SlotSearchRan(probe_ok, ev_ok, fb_ok) =>
            \A got \in {GetAvailability(extracted_entities'.parsed_date, fb_ok).slots} :
            \A dur \in {ParseDuration(extracted_entities'.duration)} :
            \A list \in {calendar_availability'} :
                /\ Len(list) <= 8
                /\ \A i \in 1..Len(list) :
                      /\ DayOf(list[i]) = extracted_entities'.parsed_date
                      /\ ev_ok => ~Overlapped(list[i], list[i] + dur)
                      /\ \E k \in 1..Len(got) : got[k] = list[i]
                /\ \A i \in 1..Len(list), j \in 1..Len(list) : i < j => list[i] < list[j]]_vars

\* the check answered from a cached list that holds a slot an event has taken
\* since, and more free slots were left than are shown
C11_Witness ==
    /\ pc = "generate_response"
    /\ conversation_stage = "showing_slots"
    /\ Len(calendar_availability) = 8
    /\ CacheHit(extracted_entities.parsed_date)
    /\ \E i \in 1..Len(cache[extracted_entities.parsed_date].slots) :
          LET t == cache[extracted_entities.parsed_date].slots[i]
          IN  /\ Overlapped(t, t + ParseDuration(extracted_entities.duration))
              /\ \A k \in 1..Len(calendar_availability) : calendar_availability[k] # t

\* C12: a turn whose intent is neither a confirmation nor a cancellation and
\* whose stage is neither booking_cancelled nor booking_conflict is handed to
\* the handler of the first missing item in the order title, duration,
\* specific day (date "next week" without a confirmed day), selected_time,
\* attendees_confirmed, else the final confirmation; each handler leaves its
\* own stage, so the turn ends in asking_title exactly when no title is known.
C12_FirstMissingField ==
    [][/\ (HandlerStep("idle")
           /\ user_intent' \notin {"confirm_booking", "cancel_booking"}
           /\ conversation_stage' \notin {"booking_cancelled", "booking_conflict"}) =>
          \A e \in {extracted_entities'} :
          \A day_needed \in {e.date = "next week" /\ ~e.day_confirmed} :
            /\ pc' = "ask_title" <=> e.title = ""
            /\ pc' = "ask_duration" <=> (e.title # "" /\ e.duration = NoDuration)
            /\ pc' = "ask_specific_day" <=>
                  (e.title # "" /\ e.duration # NoDuration /\ day_needed)
            /\ pc' = "check_availability" <=>
                  (e.title # "" /\ e.duration # NoDuration /\ ~day_needed
                   /\ e.selected_time = NoTime)
            /\ pc' = "ask_attendees" <=>
                  (e.title # "" /\ e.duration # NoDuration /\ ~day_needed
                   /\ e.selected_time # NoTime /\ ~e.attendees_confirmed)
            /\ pc' = "confirm_booking" <=>
                  (e.title # "" /\ e.duration # NoDuration /\ ~day_needed
                   /\ e.selected_time # NoTime /\ e.attendees_confirmed)
       /\ HandlerStep("ask_title") => conversation_stage' = "asking_title"
       /\ HandlerStep("ask_duration") => conversation_stage' = "asking_duration"
       /\ HandlerStep("ask_specific_day") => conversation_stage' = "asking_specific_day"
       /\ HandlerStep("ask_attendees") => conversation_stage' = "asking_attendees"
       /\ HandlerStep("confirm_booking") => conversation_stage' = "awaiting_confirmation"
       /\ (pc = "generate_response" /\ pc' = "idle") => conversation_stage' = conversation_stage]_vars

\* title and duration are known and the date "next week" has no day yet: the
\* turn was handed to the question for the day
C12_Witness ==
    /\ pc = "ask_specific_day"
    /\ user_intent = "provide_info"
    /\ extracted_entities.title = "Budget Review"
    /\ extracted_entities.duration = Hours(10)
    /\ extracted_entities.date = "next week"
    /\ extracted_entities.selected_time = NoTime

\* C13: a confirmation (by intent or by wording) received while title,
\* duration, attendees_confirmed, selected_time or parsed_date is missing goes
\* straight to the reply and leaves conversation_stage, extracted_entities,
\* calendar_availability and current_booking as they were; the reply step adds
\* one assistant message to the user message of the turn and changes none of
\* the four either.
C13_IncompleteConfirmationStays ==
    [][/\ \A m \in Messages : \A out \in m.outs :
             (/\ Receive(m, out)
              /\ out.intent = "confirm_booking" \/ IsConfirmation(m)
              /\ \/ extracted_entities.title = ""
                 \/ extracted_entities.duration = NoDuration
                 \/ ~extracted_entities.attendees_confirmed
                 \/ extracted_entities.selected_time = NoTime
                 \/ extracted_entities.parsed_date = -1) =>
                (/\ pc' = "generate_response"
                 /\ turn_msgs' = <<"user">>
                 /\ conversation_stage' = conversation_stage
                 /\ extracted_entities' = extracted_entities
                 /\ calendar_availability' = calendar_availability
                 /\ current_booking' = current_booking)
       /\ (pc = "generate_response" /\ pc' = "idle") =>
             (/\ turn_msgs' = <<"user", "assistant">>
              /\ conversation_stage' = conversation_stage
              /\ extracted_entities' = extracted_entities
              /\ calendar_availability' = calendar_availability
              /\ current_booking' = current_booking)]_vars

\* "yes" arrived while the duration was being asked for and slots were on show
C13_Witness ==
    /\ pc = "generate_response"
    /\ turn_msgs = <<"user">>
    /\ user_intent = "confirm_booking"
    /\ conversation_stage = "showing_slots"
    /\ extracted_entities.title = "Budget Review"
    /\ extracted_entities.selected_time = NoTime
    /\ calendar_availability # <<>>

\* a candidate the merge loop passes over
BlankText(s) == s \in {"", " ", "null", "None"}

\* the turn resets the conversation: auto-reset after a confirmed booking,
\* new booking request after a completed or failed one, cancellation
ResettingTurn(m, out) ==
    \/ conversation_stage = "booking_confirmed"
       /\ m.text \notin {"yes", "no", "ok", "thanks", "thank you"}
    \/ IsNewBookingRequest(m, conversation_stage)
    \/ ~(out.intent = "confirm_booking" \/ IsConfirmation(m))
       /\ (out.intent = "reject" \/ IsCancellation(m))

C15_NegativeReplyConfirmsAttendees ==
    [][\A m \in Messages : \A out \in m.outs :
          (/\ Receive(m, out)
           /\ conversation_stage = "asking_attendees"
           /\ m.text \in {"no", "none", "just me", "only me", "no one", "nobody"}) =>
             (/\ extracted_entities' = [extracted_entities EXCEPT !.attendees = <<>>,
                                                                  !.attendees_confirmed = TRUE]
              /\ pc' = "confirm_booking")]_vars

\* C16 (as stated): a message received in stage booking_confirmed starts from
\* a cleared conversation (entities and availability empty, no booking, stage
\* initial) exactly when it is none of yes/no/ok/thanks/thank you and holds a
\* booking keyword; any other message that is not a cancellation keeps the
\* stage, the booking record and the collected entities.
C16_AutoResetNeedsKeyword ==
    [][\A m \in Messages : \A out \in m.outs :
          (Receive(m, out) /\ conversation_stage = "booking_confirmed") =>
             IF m.text \notin {"yes", "no", "ok", "thanks", "thank you"} /\ m.kw
             THEN /\ current_booking' = NoBooking
                  /\ calendar_availability' = NoneAvail
                  /\ extracted_entities' =
                        ExtractInfo(Conv("", EmptyEntities, "initial", NoneAvail, NoBooking),
                                    m, out).extracted_entities
             ELSE (out.intent # "reject" /\ ~IsCancellation(m)) =>
                     /\ conversation_stage' = "booking_confirmed"
                     /\ current_booking' = current_booking
                     /\ extracted_entities'.title = extracted_entities.title
                     /\ extracted_entities'.selected_time # NoTime]_vars

\* C17 (as stated): _parse_time gives, for an hour H in 1..12 with am/pm, the
\* 12-hour to 24-hour conversion both for "H:MM am/pm" and for "H am/pm"; for
\* a 24-hour "H:MM" the time itself, hours 1..5 moved to the afternoon; for a
\* bare hour 1..11 the afternoon hour; 14:00, 10:00 and 18:00 for afternoon,
\* morning and evening; 14:00 for anything else.
C17_ParseTimeTable ==
    calc.fn = "parse_time" =>
        \A t \in {calc.arg} :
          /\ ~calc.raises
          /\ (t.form \in {"hm_ap", "h_ap"} /\ t.h \in 1..12) =>
                calc.res = 60 * (IF t.ap = "pm" /\ t.h # 12 THEN t.h + 12
                                 ELSE IF t.ap = "am" /\ t.h = 12 THEN 0 ELSE t.h) + t.m
          /\ (t.form = "hm" /\ t.h \in 0..23) =>
                calc.res = 60 * (IF t.h \in 1..5 THEN t.h + 12 ELSE t.h) + t.m
          /\ (t.form = "h" /\ t.h \in 0..23) =>
                calc.res = 60 * (IF t.h \in 1..11 THEN t.h + 12 ELSE t.h)
          /\ t = Word("afternoon") => calc.res = 14 * 60
          /\ t = Word("morning") => calc.res = 10 * 60
          /\ t = Word("evening") => calc.res = 18 * 60
          /\ (t.form \in {"word", "none"} /\ t.ap \notin {"afternoon", "morning", "evening"}) =>
                calc.res = 14 * 60

\* days from a day of weekday wd to the next day of weekday target, a week
\* when they are the same weekday
DaysToNext(target, wd) ==
    IF (target - wd + 7) % 7 = 0 THEN 7 ELSE (target - wd + 7) % 7

\* C18: for every weekday of today, _parse_date of a weekday name and of
\* "this <weekday>" is today + d with d = (target - today) mod 7, 7 instead of
\* 0, so d is in 1..7 and the day found is the weekday named;
\* _parse_specific_day gives the same for a weekday name and today + 7
\* otherwise; on a Wednesday "friday" is +2, "monday" +5, "this friday" +2,
\* "next friday" +9; "today" is +0, "tomorrow" +1, "next week" +7 and a text
\* that is not recognised +0.
C18_ParseDateTable ==
    /\ calc.fn = "parse_date" =>
          \A date \in {calc.arg.date} : \A wd \in {calc.arg.wd} :
            /\ ~calc.raises
            /\ \A i \in 1..7 :
                  (date = Weekdays[i] \/ date = ThisWeekdays[i]) =>
                     /\ calc.res = DaysToNext(i - 1, wd)
                     /\ calc.res \in 1..7
                     /\ (wd + calc.res) % 7 = i - 1
            /\ wd = 2 =>
                  /\ date \in {"friday", "this friday"} => calc.res = 2
                  /\ date = "monday" => calc.res = 5
                  /\ date = "next friday" => calc.res = 9
            /\ date = "today" => calc.res = 0
            /\ date = "tomorrow" => calc.res = 1
            /\ date = "next week" => calc.res = 7
            /\ date \in {"someday", "this week"} => calc.res = 0
    /\ calc.fn = "parse_specific_day" =>
          \A day \in {calc.arg.date} : \A wd \in {calc.arg.wd} :
            /\ ~calc.raises
            /\ \A i \in 1..7 : day = Weekdays[i] => calc.res = DaysToNext(i - 1, wd)
            /\ (\A i \in 1..7 : day # Weekdays[i]) => calc.res = 7

\* "next friday" was parsed on a Wednesday
C18_Witness ==
    /\ calc.fn = "parse_date"
    /\ calc.arg = [date |-> "next friday", wd |-> 2]
    /\ calc.res = 9

\* C19 (as stated): parse_duration never raises; "30 minutes" and "half an
\* hour" give 30 minutes, "1.5 hours" 90 and the empty text 60; "N hours"
\* gives N hours, "N minutes" N minutes, and a text no rule matches 60 minutes.
C19_ParseDurationTotal ==
    calc.fn = "parse_duration" =>
        \A d \in {calc.arg} :
          /\ ~calc.raises
          /\ d = DT("minutes", 30, "") => calc.res = 30
          /\ d = DT("phrase", 0, "half an hour") => calc.res = 30
          /\ d = Hours(15) => calc.res = 90
          /\ d = NoDuration => calc.res = 60
          /\ d.kind = "hours" => 10 * calc.res = 60 * d.n10
          /\ d.kind = "minutes" => calc.res = d.n10
          /\ d = DT("phrase", 0, "a while") => calc.res = 60

\* C20 (as stated): the step in which a booking creation ends in
\* booking_confirmed leaves the availability cache empty, so that no list
\* cached before the creation can be answered afterwards.
C20_CreationClearsCache ==
    [][(HandlerStep("create_event") /\ conversation_stage' = "booking_confirmed") =>
          cache' = <<>>]_vars


\* a step of the workflow inside a turn
HandlerNext ==
    \/ AskTitle \/ AskDuration \/ AskSpecificDay \/ AskAttendees \/ ConfirmBooking
    \/ \E probe_ok \in BOOLEAN, ev_ok \in BOOLEAN, fb_ok \in BOOLEAN :
          CheckAvailability(probe_ok, ev_ok, fb_ok)
    \/ \E ev_ok \in BOOLEAN, fb_ok \in BOOLEAN : HandleConflict(ev_ok, fb_ok)
    \/ \E ev_ok \in BOOLEAN : CreateBookingCheck(ev_ok)
    \/ \E ins_ok \in BOOLEAN : CreateBookingInsert(ins_ok)
    \/ \E render_ok \in BOOLEAN : GenerateResponse(render_ok)

C22_FailureReplyIsGeneric ==
    [][(/\ pc = "generate_response" /\ pc' = "idle"
        /\ conversation_stage = "booking_failed"
        /\ error_message # "") =>
          (reply'.kind \in {"stage", "fallback"} /\ reply'.detail = "")]_vars

\* the day the availability check looks at
TargetDay(e) == IF e.parsed_date = -1 THEN 0 ELSE e.parsed_date

\* C23 (as stated): when the availability check of a turn asks the calendar
\* for its free slots (no cached list, no free default time) and the backend
\* fails, the check ends with an empty calendar_availability and with the
\* stage availability_error.
C23_BackendFailureIsError ==
    [][\A probe_ok \in BOOLEAN, ev_ok \in BOOLEAN :
          (/\ CheckAvailability(probe_ok, ev_ok, FALSE)
           /\ ~CacheHit(TargetDay(extracted_entities))
           /\ conversation_stage' # "time_confirmed") =>
              (/\ calendar_availability' = <<>>
               /\ conversation_stage' = "availability_error")]_vars

\* C24: when a generic-time default is recorded and the probe of the
\* availability check finds no event in [default, default + duration) (or
\* get_events answers nothing), the check makes the default the selected_time,
\* sets time_confirmed, ends in stage time_confirmed and runs no slot search:
\* calendar_availability and the availability cache stay as they were.
C24_FreeDefaultAccepted ==
    [][HandlerStep("check_availability") =>
          \A probe_ok \in BOOLEAN, ev_ok \in BOOLEAN, fb_ok \in BOOLEAN :
          \A e \in {extracted_entities} :
          \A start \in {DayStart(TargetDay(e)) + ParseTime(e.default_time)} :
            (/\ CheckAvailability(probe_ok, ev_ok, fb_ok)
             /\ e.default_time # NoTime /\ e.generic_time_used # ""
             /\ ~ParseDurationRaises(e.duration)
             /\ ~probe_ok \/ ~Overlapped(start, start + ParseDuration(e.duration))) =>
                (/\ extracted_entities'.selected_time = e.default_time
                 /\ extracted_entities'.time_confirmed
                 /\ conversation_stage' = "time_confirmed"
                 /\ calendar_availability' = calendar_availability
                 /\ cache' = cache)]_vars

\* "morning" was asked for on a day whose 10:00-11:00 is free
C24_Witness ==
    /\ pc = "generate_response"
    /\ conversation_stage = "time_confirmed"
    /\ extracted_entities.generic_time_used = "morning"
    /\ extracted_entities.selected_time = GenericDefault("morning")
    /\ extracted_entities.time_confirmed
    /\ calendar_availability = NoneAvail
    /\ ~Overlapped(DayStart(extracted_entities.parsed_date) + 10 * 60,
                   DayStart(extracted_entities.parsed_date) + 11 * 60)

\* C25 (as stated): for every message "H1-H2 am/pm" with H1 and H2 in 1..12
\* the turn stores as duration the hours from H1 to H2, both read with the
\* marker (24 more when that is negative), and as time, promoted to
\* selected_time, the start "H1 am/pm" of the range.
C25_RangeStartStored ==
    calc.fn = "extract_info_range" =>
        \A r \in {calc.arg} :
        \A delta \in {Hour12To24(r.h2, r.ap) - Hour12To24(r.h1, r.ap)} :
          /\ calc.res.duration = Hours(10 * (IF delta < 0 THEN delta + 24 ELSE delta))
          /\ calc.res.time = TT("h_ap", r.h1, 0, r.ap)
          /\ calc.res.selected_time = TT("h_ap", r.h1, 0, r.ap)

\* C26 (as stated): a turn whose message holds both an H[:MM] am/pm token and
\* an email address leaves that time and those addresses in the accumulated
\* entities, whatever intent the extractor gave the message.
C26_CombinedMessageMerged ==
    [][\A m \in Messages : \A out \in m.outs :
          (Receive(m, out) /\ m.tok # NoTime /\ m.emails # <<>>) =>
             (/\ extracted_entities'.time = m.tok
              /\ extracted_entities'.attendees = m.emails)]_vars

\* C27: in a turn that reaches the merge, a time candidate of the form
\* H[:MM] am/pm becomes requested_time and selected_time; a candidate that is
\* one of the words morning, afternoon, evening, night leaves selected_time as
\* it was (empty after a reset) and records default_time, generic_time_used
\* and requested_time; outside the extraction selected_time changes only in
\* the availability check whose probe found the default free.
C27_GenericNeverSelected ==
    [][/\ \A m \in Messages : \A out \in m.outs :
             (/\ Receive(m, out)
              /\ ~(out.intent = "confirm_booking" \/ IsConfirmation(m))
              /\ ~(out.intent = "reject" \/ IsCancellation(m))) =>
                \A cand \in {NewEntities(m, out).time} :
                \A new \in {extracted_entities'} :
                  /\ cand.form \in {"hm_ap", "h_ap"} =>
                        (new.requested_time = cand /\ new.selected_time = cand)
                  /\ (cand.form = "word" /\ cand.ap \in {"morning", "afternoon", "evening", "night"}) =>
                        /\ new.selected_time =
                              IF ResettingTurn(m, out) THEN NoTime
                              ELSE extracted_entities.selected_time
                        /\ new.generic_time_used = cand.ap
                        /\ new.default_time \in {TT("hm_ap", 10, 0, "am"), TT("hm_ap", 2, 0, "pm"),
                                                 TT("hm_ap", 6, 0, "pm"), TT("hm_ap", 8, 0, "pm")}
                        /\ new.requested_time = new.default_time
       /\ (pc # "idle" /\ extracted_entities'.selected_time # extracted_entities.selected_time) =>
             /\ pc = "check_availability"
             /\ conversation_stage' = "time_confirmed"
             /\ extracted_entities'.selected_time = extracted_entities.default_time]_vars

\* "morning" was merged: the default is recorded and no time is selected
C27_Witness ==
    /\ pc = "check_availability"
    /\ extracted_entities.time = Word("morning")
    /\ extracted_entities.default_time = TT("hm_ap", 10, 0, "am")
    /\ extracted_entities.requested_time = TT("hm_ap", 10, 0, "am")
    /\ extracted_entities.generic_time_used = "morning"
    /\ extracted_entities.selected_time = NoTime

\* C28 (as stated): for every weekday of today and every weekday named,
\* _parse_date("next <weekday>") is 7 days after _parse_date("this <weekday>")
\* and lies strictly in the future.
C28_NextIsThisPlusSeven ==
    calc.fn = "parse_date" =>
        \A i \in 1..7 :
            calc.arg.date = NextWeekdays[i] =>
               (calc.res = DaysToNext(i - 1, calc.arg.wd) + 7 /\ calc.res > 0)

\* C28 (amended): _parse_date("next <weekday>") is today + (target - today's
\* weekday) + 7: the named weekday of the week (Monday to Sunday) after the
\* current one, 1 to 13 days ahead.  It is 7 days after "this <weekday>" when
\* the weekday named comes later in the week than today, and the same day as
\* "this <weekday>" otherwise.
C28_NextIsFollowingWeek ==
    calc.fn = "parse_date" =>
        \A i \in 1..7 :
            calc.arg.date = NextWeekdays[i] =>
               \A wd \in {calc.arg.wd} :
                 /\ ~calc.raises
                 /\ calc.res = (i - 1) - wd + 7
                 /\ calc.res \in 1..13
                 /\ (wd + calc.res) % 7 = i - 1
                 /\ (wd + calc.res) \div 7 = 1
                 /\ calc.res = DaysToNext(i - 1, wd) + (IF i - 1 > wd THEN 7 ELSE 0)

\* "next monday" asked for on a Wednesday is the coming Monday, the day
\* "this monday" gives as well
C28_Witness ==
    /\ calc.fn = "parse_date"
    /\ calc.arg = [date |-> "next monday", wd |-> 2]
    /\ calc.res = 5

\* C29 (as stated): parse_duration gives 15 minutes for every text that holds
\* "quarter" and "hour" or "hr" but not "half", and 30 minutes for every text
\* that holds "half" and "hour" or "hr", whatever else the text holds.
C29_PhraseRulesApplied ==
    calc.fn = "parse_duration" =>
        \A d \in {calc.arg} :
          /\ (DurHasQuarter(d) /\ DurHasHour(d) /\ ~DurHasHalf(d)) => calc.res = 15
          /\ (DurHasHalf(d) /\ DurHasHour(d)) => calc.res = 30

\* C30 (as stated): get_availability, of the real and of the mock service,
\* answers from the cache only while the entry for the range asked is younger
\* than _cache_duration; once the entry is older, the answer is the slot list
\* computed from the events the backend holds at the time of the query.
C30_CacheExpires ==
    [][\A day \in ServiceDays : \A fb_ok \in BOOLEAN :
          (GetAvailabilityCall(day, fb_ok) /\ fb_ok /\ ~FirstCandidateRaises(day)) =>
              /\ (day \in DOMAIN cache /\ cache[day].expired) =>
                     calc'.res = ComputeSlots(day)
              /\ calc'.res # ComputeSlots(day) =>
                     /\ day \in DOMAIN cache
                     /\ ~cache[day].expired
                     /\ calc'.res = cache[day].slots]_vars

\* the turn begun with message m resets the conversation explicitly: the
\* auto-reset of chat_endpoint, the reset of a new booking request, or a
\* cancellation
ExplicitReset(m) ==
    \/ /\ conversation_stage = "booking_confirmed"
       /\ m.text \notin {"yes", "no", "ok", "thanks", "thank you"}
    \/ IsNewBookingRequest(m, conversation_stage)
    \/ IsCancellation(m)
    \/ \E out \in m.outs : out.intent = "reject"

\* C31: current_booking is None until a create_event call has returned a
\* record with an identifier; only the step of _create_booking_node that gets
\* such a record sets it, and once set only a turn that resets the
\* conversation explicitly (cancellation, new booking request after
\* booking_confirmed or booking_failed, auto-reset) clears it.
C31_BookingLifecycle ==
    [][/\ (created = 0 /\ created' = 0) => current_booking' = NoBooking
       /\ (current_booking' # current_booking /\ current_booking' # NoBooking) =>
              /\ pc = "create_event"
              /\ created' = created + 1
              /\ current_booking'.id # 0
              /\ conversation_stage' = "booking_confirmed"
       /\ (current_booking # NoBooking /\ current_booking' = NoBooking) =>
              /\ pc = "idle"
              /\ \E m \in vocabulary :
                    /\ ExplicitReset(m)
                    /\ \/ \E out \in m.outs : Receive(m, out)
                       \/ ReceiveExtractionRaises(m)
                       \/ ReceiveWorkflowRaises(m)]_vars

\* a booking was recorded and a cancellation has cleared it
C31_Witness ==
    /\ created > 0
    /\ current_booking = NoBooking
    /\ conversation_stage = "booking_cancelled"
    /\ pc = "idle"

\* the stages each node of the workflow writes
HandlerStages(node) ==
    IF node = "ask_title" THEN {"asking_title"}
    ELSE IF node = "ask_duration" THEN {"asking_duration"}
    ELSE IF node = "ask_specific_day" THEN {"asking_specific_day"}
    ELSE IF node = "ask_attendees" THEN {"asking_attendees"}
    ELSE IF node = "confirm_booking" THEN {"awaiting_confirmation"}
    ELSE IF node = "check_availability"
         THEN {"time_confirmed", "showing_slots", "showing_alternative_slots",
               "no_availability", "availability_error"}
    ELSE IF node = "handle_conflict"
         THEN {"showing_alternative_slots", "no_alternatives", "conflict_error"}
    ELSE IF node = "create_booking" THEN {"booking_conflict", "booking_failed"}
    ELSE IF node = "create_event" THEN {"booking_confirmed", "booking_failed"}
    ELSE {}

\* the turn begun with message m is received
Received(m) ==
    \/ \E out \in m.outs : Receive(m, out)
    \/ ReceiveExtractionRaises(m)
    \/ ReceiveWorkflowRaises(m)

\* C32 (as stated): conversation_stage changes only in the step of the handler
\* the routing function selected; the step that receives the message, extracts
\* and merges the entities never changes it.
C32_StageOnlyByHandlers ==
    [][conversation_stage' # conversation_stage =>
          /\ pc # "idle"
          /\ conversation_stage' \in HandlerStages(pc)]_vars

\* C32 (amended): conversation_stage changes in the step of the handler the
\* routing function selected, to one of the stages of that handler, and in the
\* receiving step of a turn only by a reset: to "booking_cancelled" when the
\* message is a cancellation or rejection, to "initial" by the auto-reset or
\* by a new booking request after booking_confirmed or booking_failed.  The
\* reply step never changes it.
C32_StageByHandlersAndResets ==
    [][conversation_stage' # conversation_stage =>
          \/ /\ pc # "idle"
             /\ conversation_stage' \in HandlerStages(pc)
          \/ /\ pc = "idle"
             /\ conversation_stage' \in {"booking_cancelled", "initial"}
             /\ \E m \in vocabulary :
                   /\ Received(m)
                   /\ conversation_stage' = "booking_cancelled" =>
                          (IsCancellation(m) \/ \E out \in m.outs : out.intent = "reject")
                   /\ conversation_stage' = "initial" =>
                          \/ IsNewBookingRequest(m, conversation_stage)
                          \/ /\ conversation_stage = "booking_confirmed"
                             /\ m.text \notin {"yes", "no", "ok", "thanks", "thank you"}]_vars

\* the extraction step of a turn has just cancelled a booking that had a
\* title: the stage is booking_cancelled before any handler ran
C32_Witness ==
    /\ pc = "generate_response"
    /\ turn_msgs = <<"user">>
    /\ user_intent = "cancel_booking"
    /\ conversation_stage = "booking_cancelled"
    /\ created = 0

\* a turn is over and its reply was returned
TurnOver == pc = "idle" /\ turn_msgs # <<>>

\* C33: in the reply of every turn booking_data is set only at stage
\* booking_confirmed with a current_booking that has an identifier,
\* suggested_times is non-empty only at the stages showing_slots and
\* showing_alternative_slots and holds at most 8 entries,
\* requires_confirmation is true exactly at stage awaiting_confirmation, and
\* at most one of the three is populated.
C33_SideChannelFields ==
    TurnOver =>
        \A r \in {ChatResponse(CurrentConv)} :
           /\ r.booking_data # NoBooking =>
                  /\ conversation_stage = "booking_confirmed"
                  /\ current_booking.id # 0
                  /\ r.booking_data = current_booking
           /\ r.suggested_times # <<>> =>
                  /\ conversation_stage \in {"showing_slots", "showing_alternative_slots"}
                  /\ Len(r.suggested_times) <= 8
           /\ r.requires_confirmation <=> conversation_stage = "awaiting_confirmation"
           /\ Cardinality({f \in {"b", "s", "r"} :
                              \/ f = "b" /\ r.booking_data # NoBooking
                              \/ f = "s" /\ r.suggested_times # <<>>
                              \/ f = "r" /\ r.requires_confirmation}) <= 1

\* a reply that offers alternative slots after a busy default time
C33_Witness ==
    /\ TurnOver
    /\ conversation_stage = "showing_alternative_slots"
    /\ ChatResponse(CurrentConv).suggested_times # <<>>
    /\ ~ChatResponse(CurrentConv).requires_confirmation

\* the nodes between extract_info and generate_response
StageHandlers ==
    {"ask_title", "ask_duration", "ask_specific_day", "check_availability",
     "handle_conflict", "ask_attendees", "confirm_booking", "create_booking"}

C35_HappyPath ==
    [][/\ (script = HappyBase + 3 /\ script' = HappyBase + 4) => pc' = "confirm_booking"
       /\ (script = HappyBase + 4 /\ HandlerStep("confirm_booking")) =>
              conversation_stage' = "awaiting_confirmation"
       /\ (script = HappyBase + 4 /\ script' = HappyBase + 5) =>
              (pc' = "create_booking" /\ conversation_stage = "awaiting_confirmation")
       /\ (script = HappyBase + 5 /\ HandlerStep("create_booking")
           /\ ~Overlapped(ScriptStart, ScriptStart + 60)) => pc' = "create_event"
       /\ (script = HappyBase + 5 /\ HandlerStep("create_event")) =>
              /\ conversation_stage' = "booking_confirmed"
              /\ created' = 1
              /\ Cardinality(events' \ events) = 1
              /\ \E e \in events' \ events :
                    /\ e.id = current_booking'.id
                    /\ e.start = ScriptStart
                    /\ e.end = ScriptStart + 60]_vars

\* C36 (as stated): create_event is only called in a turn that began at stage
\* awaiting_confirmation (the stage is still the one the turn began with when
\* _create_booking_node reaches the call); a confirmation received at any
\* other stage creates no event.
C36_CreateOnlyAfterSummary ==
    pc = "create_event" => conversation_stage = "awaiting_confirmation"

\* C39 (as stated): when a message received at showing_slots or
\* showing_alternative_slots is taken as the selection of a time, the time
\* selected (on the date of the booking) is the start of one of the slots
\* held in calendar_availability.
C39_SelectionFromList ==
    [][(pc = "idle" /\ conversation_stage \in {"showing_slots", "showing_alternative_slots"}) =>
          \A m \in vocabulary : \A out \in m.outs :
             (/\ Receive(m, out)
              /\ IsTimeSelection(m, conversation_stage)
              /\ out.intent \notin {"confirm_booking", "reject"}
              /\ ~IsConfirmation(m)
              /\ ~IsCancellation(m)) =>
                 \E i \in 1..Len(calendar_availability) :
                    calendar_availability[i] = BookingStart(extracted_entities')]_vars

\* C40 (as stated): whatever the time of day and the day asked for, a
\* get_availability call that computes its answer (real or mock service)
\* returns without raising a list of at most 15 slots on the day asked for,
\* none before 06:00 or after 23:30, in increasing order a multiple of 30
\* minutes apart, none sooner than 30 minutes from now when the day is today,
\* and none whose hour overlaps an event of that day.
C40_SlotListWellFormed ==
    [][\A day \in ServiceDays : \A fb_ok \in BOOLEAN :
          (GetAvailabilityCall(day, fb_ok) /\ ~CacheHit(day)) =>
              /\ ~calc'.raises
              /\ Len(calc'.res) <= MaxSlots
              /\ \A i \in 1..Len(calc'.res) :
                    \A t \in {calc'.res[i]} :
                       /\ DayOf(t) = day
                       /\ MinuteOf(t) >= FirstHour * 60
                       /\ MinuteOf(t) <= 23 * 60 + 30
                       /\ i > 1 => (t > calc'.res[i - 1] /\ (t - calc'.res[i - 1]) % SlotStep = 0)
                       /\ day = 0 => t >= now.min + 30
                       /\ \A b \in GetEvents(day) : ~(t < b.end /\ t + SlotWindow > b.start)]_vars

\* C37 (as stated): no two events the assistant created overlap in time,
\* whichever sessions asked for them and however their turns follow one another.
C37_NoOverlappingBookings ==
    \A e1 \in events \ ExternalEvents : \A e2 \in events \ ExternalEvents :
        e1 # e2 => ~(e1.start < e2.end /\ e2.start < e1.end)

====
